---- MODULE Spec2Model ----
(***************************************************************************)
(* Reconciliation core of the inventory backend: the webhook handlers      *)
(* (products, inventory levels, orders, refunds), the pull imports and the *)
(* operator stock set, over the products / product_variants tables.        *)
(*                                                                         *)
(* Every `await db.query(...)` of a handler is one atomic step; handlers   *)
(* of different requests interleave between their steps, as the Node event *)
(* loop interleaves them between awaits.  No handler opens a transaction:  *)
(* db.query goes to pool.query, so every statement commits on its own.     *)
(***************************************************************************)
EXTENDS Integers, Sequences, FiniteSets, TLC

VARIABLES
    products,       \* rows of table products
    variants,       \* rows of table product_variants
    nextProductId,  \* SERIAL sequence of products.id
    nextVariantId,  \* SERIAL sequence of product_variants.id
    reqs,           \* the requests in flight, one per slot
    delivered,      \* ids of the push events handed to a handler so far
    nEvents         \* number of requests received so far

vars == <<products, variants, nextProductId, nextVariantId, reqs, delivered, nEvents>>

----------------------------------------------------------------------------
(* Bounds of the model *)

MaxEvents == 3      \* requests received in one behaviour

MaxStock == 10      \* largest stock a variant starts a round trip with

MaxQuantity == 4    \* largest quantity of an order in a round trip

Slots == {"r1", "r2"}   \* requests that may be in flight together

----------------------------------------------------------------------------
(* JavaScript and SQL values.  Text fields are strings, numeric fields are  *)
(* integers; the values that are neither get a reserved member of each.     *)

Undef == "undefined"    \* a field the JSON payload does not carry
Null == "null"          \* SQL NULL, JS null
UndefNum == -9001       \* undefined, in a numeric position
NullNum == -9002        \* NULL, in a numeric position
NaN == -9003            \* what parseFloat / parseInt give for no number

FalsyText(x) == x \in {Undef, Null, ""}
FalsyNum(x) == x \in {UndefNum, NullNum, NaN, 0}

\* x || d
OrText(x, d) == IF FalsyText(x) THEN d ELSE x
OrNum(x, d) == IF FalsyNum(x) THEN d ELSE x

\* a bound parameter of a statement: undefined is sent as NULL
SqlText(x) == IF x = Undef THEN Null ELSE x
SqlNum(x) == IF x = UndefNum THEN NullNum ELSE x

\* column = $n of a WHERE clause: never true of NULL
SqlEquals(column, param) == column # NullNum /\ SqlNum(param) # NullNum /\ column = param

\* Prices travel as decimal strings; the ones of the model, in whole units.
NumOf == [s \in {"0", "5", "20"} |-> CASE s = "0" -> 0 [] s = "5" -> 5 [] s = "20" -> 20]

parseFloat(s) == IF s \in DOMAIN NumOf THEN NumOf[s] ELSE NaN

\* Quantities and weights travel as JSON numbers; parseInt and parseFloat of
\* a whole number give it back, of undefined or null give NaN.
parseInt(n) == IF n \in {UndefNum, NullNum, NaN} THEN NaN ELSE n

Max(a, b) == IF a >= b THEN a ELSE b

----------------------------------------------------------------------------
(* Rows.  A product payload is the platform's product JSON; the row built   *)
(* from it is what the webhook handlers pass to INSERT.                     *)

NoRow == [id |-> 0]     \* result.rows is empty

\* `SKU-${variant.id}`
DefaultSku(id) == "SKU-" \o ToString(id)

\* the product row with the snapshot's status bound as it came
WebhookProductRowStatusAsSent(id, product) ==
    [id |-> id,
     shopify_product_id |-> product.id,
     name |-> product.title,
     description |-> OrText(product.body_html, Null),
     product_type |-> OrText(product.product_type, "General"),
     vendor |-> OrText(product.vendor, "Default Vendor"),
     status |-> SqlText(product.status)]

\* VALUES of INSERT INTO products, in products/create and products/update
WebhookProductRow(id, product) ==
    [id |-> id,
     shopify_product_id |-> product.id,
     name |-> product.title,
     description |-> OrText(product.body_html, Null),
     product_type |-> OrText(product.product_type, "General"),
     vendor |-> OrText(product.vendor, "Default Vendor"),
     status |-> OrText(product.status, "active")]

\* the descriptive columns a webhook writes for a variant (INSERT and UPDATE)
WebhookVariantFields(variant) ==
    [sku |-> OrText(variant.sku, DefaultSku(variant.id)),
     title |-> OrText(variant.title, "Default"),
     option1 |-> OrText(variant.option1, Null),
     option2 |-> OrText(variant.option2, Null),
     option3 |-> OrText(variant.option3, Null),
     price |-> OrNum(parseFloat(variant.price), 0),
     compare_at_price |-> IF FalsyText(variant.compare_at_price) THEN NullNum
                          ELSE parseFloat(variant.compare_at_price),
     stock |-> OrNum(parseInt(variant.inventory_quantity), 0),
     weight |-> IF FalsyNum(variant.weight) THEN NullNum ELSE parseInt(variant.weight),
     weight_unit |-> OrText(variant.weight_unit, "kg")]

\* a row of product_variants from its keys and its descriptive columns
VariantRow(id, productId, svid, siid, f) ==
    [id |-> id,
     product_id |-> productId,
     shopify_variant_id |-> SqlNum(svid),
     shopify_inventory_item_id |-> SqlNum(siid),
     sku |-> SqlText(f.sku),
     title |-> SqlText(f.title),
     option1 |-> SqlText(f.option1),
     option2 |-> SqlText(f.option2),
     option3 |-> SqlText(f.option3),
     price |-> SqlNum(f.price),
     compare_at_price |-> SqlNum(f.compare_at_price),
     stock |-> SqlNum(f.stock),
     weight |-> SqlNum(f.weight),
     weight_unit |-> SqlText(f.weight_unit)]

\* VALUES of INSERT INTO product_variants, in products/create and products/update
WebhookVariantRow(id, productId, variant) ==
    VariantRow(id, productId, variant.id, variant.inventory_item_id,
               WebhookVariantFields(variant))

\* SET of UPDATE product_variants: the descriptive columns
SetVariantFields(v, f) ==
    [v EXCEPT !.sku = SqlText(f.sku), !.title = SqlText(f.title),
              !.option1 = SqlText(f.option1), !.option2 = SqlText(f.option2),
              !.option3 = SqlText(f.option3), !.price = SqlNum(f.price),
              !.compare_at_price = SqlNum(f.compare_at_price),
              !.stock = SqlNum(f.stock), !.weight = SqlNum(f.weight),
              !.weight_unit = SqlText(f.weight_unit)]

----------------------------------------------------------------------------
(* The store.  The schema of products / product_variants is not part of    *)
(* the sources; its constraints are the data model's: the external ids and *)
(* the SKU are unique when present, a variant references its product, and  *)
(* deleting a product deletes its variants.                                *)

\* the first row of a result, or NoRow
FirstRow(rows) == IF rows = {} THEN NoRow ELSE CHOOSE v \in rows : \A w \in rows : v.id <= w.id

\* SELECT ... FROM products WHERE shopify_product_id = $1
SelectProduct(spid) == FirstRow({p \in products : p.shopify_product_id = spid})

\* SELECT ... FROM product_variants WHERE shopify_variant_id = $1
findVariantByShopifyId(svid) == FirstRow({v \in variants : v.shopify_variant_id = svid})

\* SELECT * FROM product_variants WHERE id = $1
SelectVariantById(id) == FirstRow({v \in variants : v.id = id})

\* a plain index on shopify_product_id, which rejects nothing
ProductUniqueUnchecked(row) == row.shopify_product_id = row.shopify_product_id

\* the unique constraints of products, for a row to be inserted
ProductUnique(row) ==
    \/ row.shopify_product_id = NullNum
    \/ \A p \in products : p.shopify_product_id # row.shopify_product_id

\* the unique constraints of product_variants, for a row to be written
\* beside the rows `others`
VariantUnique(row, others) ==
    /\ row.shopify_variant_id # NullNum
          => \A v \in others : v.shopify_variant_id # row.shopify_variant_id
    /\ row.shopify_inventory_item_id # NullNum
          => \A v \in others : v.shopify_inventory_item_id # row.shopify_inventory_item_id
    /\ row.sku # Null => \A v \in others : v.sku # row.sku

\* product_variants.product_id REFERENCES products(id)
VariantOwned(row) == \E p \in products : p.id = row.product_id

\* INSERT INTO product_variants is accepted
VariantInsertOk(row) == VariantUnique(row, variants) /\ VariantOwned(row)

\* UPDATE product_variants ... WHERE shopify_variant_id = $n is accepted
VariantUpdateOk(svid, f) ==
    \A v \in variants : v.shopify_variant_id = svid
        => VariantUnique(SetVariantFields(v, f), variants \ {v})

\* DELETE FROM products WHERE shopify_product_id = $1, with ON DELETE CASCADE
DeleteProduct(spid) ==
    LET gone == {p.id : p \in {q \in products : q.shopify_product_id = spid}}
    IN /\ products' = {p \in products : p.id \notin gone}
       /\ variants' = {v \in variants : v.product_id \notin gone}

\* Math.max(0, newStock), the value updateVariantStock binds
ClampStock(newStock) == Max(0, newStock)

\* UPDATE product_variants SET stock = $1, updated_at = CURRENT_TIMESTAMP WHERE id = $2
updateVariantStock(variantId, newStock) ==
    variants' = {IF v.id = variantId
                 THEN [v EXCEPT !.stock = ClampStock(newStock)]
                 ELSE v : v \in variants}

----------------------------------------------------------------------------
(* The signature of a push request.  A body is a sequence of bytes; "FF"   *)
(* is a byte that is not valid UTF-8 and "EFBFBD" the three bytes that     *)
(* encode U+FFFD.  The keyed hash is ideal: two digests are equal exactly  *)
(* when key and data are.                                                  *)

\* buf.toString('utf8'): bytes that are not UTF-8 become U+FFFD
Utf8Decode(bytes) ==
    [k \in DOMAIN bytes |-> IF bytes[k] \in {"FF", "EFBFBD"} THEN "U+FFFD" ELSE bytes[k]]

\* the bytes .update(text, 'utf8') hashes
Utf8Encode(text) ==
    [k \in DOMAIN text |-> IF text[k] = "U+FFFD" THEN "EFBFBD" ELSE text[k]]

\* express.json's verify hook sets req.rawBody; it is not called for a
\* request without a body, and req.rawBody stays undefined
RawBodyOf(bytes) == IF bytes = <<>> THEN <<>> ELSE Utf8Decode(bytes)

\* crypto.createHmac('sha256', secret).update(data).digest()
Hmac(secret, data) == [key |-> secret, data |-> data]

\* characters of the base64 text of a SHA-256 digest
DigestLength == 44

\* .digest('base64')
Base64(digest) == [digest |-> digest, length |-> DigestLength]

\* no x-shopify-hmac-sha256 header (or an empty one)
NoHeader == [digest |-> Hmac(Undef, <<>>), length |-> 0]

\* crypto.timingSafeEqual(a, b): throws when the lengths differ
timingSafeEqual(a, b) ==
    IF a.length # b.length THEN "throws" ELSE IF a = b THEN "true" ELSE "false"

\* the middleware's outcome: 0 for next(), otherwise the status it answers with
verifyShopifyWebhook(hmacHeader, secret, rawBody) ==
    IF hmacHeader.length = 0 THEN 401
    ELSE IF secret = Undef THEN 500
    ELSE IF rawBody = <<>> THEN 500
    ELSE LET calculatedHash == Base64(Hmac(secret, Utf8Encode(rawBody)))
             isValid == timingSafeEqual(calculatedHash, hmacHeader)
         IN  IF isValid = "true" THEN 0 ELSE 401

\* what a push request arrives with: the process's SHOPIFY_WEBHOOK_SECRET,
\* the bytes of the body and the signature header
Auth(secret, raw, hmac) == [secret |-> secret, raw |-> raw, hmac |-> hmac]

\* a request of a route without the verifier
NoAuth == Auth(Undef, <<>>, NoHeader)

----------------------------------------------------------------------------
(* Calls to the platform through ShopifyService: the axios instance and    *)
(* retryWithBackoff.  A reply is the HTTP status the platform answers      *)
(* with, or NoReply when no response comes (connection lost, timeout).     *)

NoReply == 0

\* validateStatus: (status) => status < 500
validateStatus(status) == status < 500

\* this.api.get / post / put: resolves with the response when validateStatus
\* accepts its status, and rejects otherwise; error.response is undefined
\* when no response came
Axios(reply) ==
    IF reply = NoReply THEN [rejected |-> TRUE, status |-> UndefNum]
    ELSE [rejected |-> ~validateStatus(reply), status |-> reply]

\* retryWithBackoff(fn, retries = 3, delay = 1000)
DefaultRetries == 3
DefaultDelay == 1000

\* the state of one call under retryWithBackoff: the attempts made, the
\* retries left, the delay of the next wait, the delays waited so far, the
\* last reply and whether fn() rejected with it
NoCall == [attempts |-> 0, retries |-> DefaultRetries, delay |-> DefaultDelay,
           waited |-> <<>>, reply |-> NoReply, rejected |-> FALSE, outcome |-> "pending"]

\* a retryWithBackoff that goes round again after any rejection
retryWithBackoffRoundOnAnyError(call, reply, result) ==
    LET made == [call EXCEPT !.attempts = @ + 1, !.reply = reply,
                             !.rejected = result.rejected]
    IN  IF result.rejected
        THEN IF call.retries > 0
             THEN [made EXCEPT !.retries = @ - 1, !.delay = @ * 2,
                               !.waited = Append(@, call.delay), !.outcome = "pending"]
             ELSE [made EXCEPT !.outcome = "thrown"]
        ELSE [made EXCEPT !.outcome = "returned"]

\* one round of retryWithBackoff: fn() is awaited; a rejection with
\* error.response?.status === 429 and retries left waits `delay` and goes
\* round again with retries - 1 and delay * 2; another rejection is thrown;
\* a response is returned
retryWithBackoffRound(call, reply, result) ==
    LET made == [call EXCEPT !.attempts = @ + 1, !.reply = reply,
                             !.rejected = result.rejected]
    IN  IF result.rejected
        THEN IF call.retries > 0 /\ result.status = 429
             THEN [made EXCEPT !.retries = @ - 1, !.delay = @ * 2,
                               !.waited = Append(@, call.delay), !.outcome = "pending"]
             ELSE [made EXCEPT !.outcome = "thrown"]
        ELSE [made EXCEPT !.outcome = "returned"]

\* retryWithBackoff(async () => await this.api.get(...)): fn is a request of
\* the axios instance
retryWithBackoff(call, reply) == retryWithBackoffRound(call, reply, Axios(reply))

\* `if (response.status !== 200) throw` of getProduct, updateInventory, ...:
\* the call of the service method has succeeded
ServiceCallOk(call) == call.outcome = "returned" /\ call.reply = 200

----------------------------------------------------------------------------
(* Requests.  A request is received into a free slot, runs its handler one  *)
(* statement at a time and ends with a response; the slot is freed when the *)
(* response has gone out.  dup and wrote record, for the properties below, *)
(* whether the request's event id had been delivered before, in a request  *)
(* that has been answered, and whether a statement of the request has      *)
(* changed the store; auth is what a push request arrived with and remote  *)
(* the catalogue the platform held when a bulk import fetched from it;     *)
(* call is the request's call to the platform under retryWithBackoff and   *)
(* low the stock levels the request has raised the low-stock warning for. *)
(* The timestamp columns (created_at, updated_at) are left out of the rows. *)

Idle == [pc |-> "idle"]

FreeSlot == CHOOSE s \in Slots : reqs[s].pc = "idle"

NewRequest(ev, pc, status, i) ==
    [pc |-> pc, topic |-> ev.topic, eid |-> ev.eid, body |-> ev.body,
     i |-> i, dbProductId |-> 0, row |-> NoRow, product |-> NoRow, status |-> status,
     fetched |-> <<>>, j |-> 1, counts |-> [created |-> 0, updated |-> 0, failed |-> 0],
     dup |-> /\ ev.eid \in delivered
             /\ \A s \in Slots : reqs[s].pc \in {"idle", "done"} \/ reqs[s].eid # ev.eid,
     wrote |-> FALSE,
     auth |-> IF "auth" \in DOMAIN ev THEN ev.auth ELSE NoAuth,
     remote |-> <<>>,
     call |-> NoCall,
     low |-> {}]

\* checkLowStock(productName, variantTitle, stock, threshold = 10)
LowStockThreshold == 10

\* if (stock < threshold) console.warn(...)
checkLowStock(req, stock) ==
    IF stock < LowStockThreshold THEN [req EXCEPT !.low = @ \cup {stock}] ELSE req

\* res.status(code).json(...): the handler is over
Respond(req, code) == [req EXCEPT !.pc = "done", !.status = code]

\* a statement of the request has changed (changed = TRUE) the store
Wrote(req, changed) == [req EXCEPT !.wrote = req.wrote \/ changed]

Active(r) == reqs[r].pc \notin {"idle", "done"}

StoreUnchanged == UNCHANGED <<products, variants, nextProductId, nextVariantId>>

\* request r is received: the synchronous head of its handler has run and
\* left it at `pc`, at item i of its loop (or answered at once, with `status`)
Receive(ev, pc, status, i) ==
    /\ nEvents < MaxEvents
    /\ \E s \in Slots : reqs[s].pc = "idle"
    /\ reqs' = [reqs EXCEPT ![FreeSlot] = NewRequest(ev, pc, status, i)]
    /\ delivered' = IF ev.eid = 0 THEN delivered ELSE delivered \cup {ev.eid}
    /\ nEvents' = nEvents + 1
    /\ StoreUnchanged

\* the response has been sent; the slot is free again
Retire(r) ==
    /\ reqs[r].pc = "done"
    /\ reqs' = [reqs EXCEPT ![r] = Idle]
    /\ StoreUnchanged
    /\ UNCHANGED <<delivered, nEvents>>

----------------------------------------------------------------------------
(* Stock events: orders/create, orders/cancelled, refunds/create.          *)

\* the line items a stock event loops over
LineItems(req) ==
    IF req.topic = "refunds/create" THEN req.body.refund_line_items ELSE req.body.line_items

\* item.variant_id, and lineItem?.variant_id of a refund line
LineVariantId(topic, item) ==
    IF topic = "refunds/create" THEN item.line_item.variant_id ELSE item.variant_id

\* the first item at or after i that is not skipped: `if (!item.variant_id) continue`
NextItem(topic, items, i) ==
    LET rest == {j \in i..Len(items) : ~FalsyNum(LineVariantId(topic, items[j]))}
    IN IF rest = {} THEN Len(items) + 1 ELSE CHOOSE j \in rest : \A k \in rest : j <= k

\* the loop goes on with the item after i, or the handler answers 200
Advance(req) ==
    LET items == LineItems(req)
        j == NextItem(req.topic, items, req.i + 1)
    IN IF j > Len(items) THEN Respond([req EXCEPT !.i = j], 200)
       ELSE [req EXCEPT !.pc = "find", !.i = j]

\* the restoring arithmetic of orders/cancelled, in orders/create
OrdersCreateNewStockAdding(oldStock, quantity) == oldStock + quantity

\* const newStock = Math.max(0, oldStock - item.quantity)
OrdersCreateNewStock(oldStock, quantity) == Max(0, oldStock - quantity)

\* a cancellation that does not restock
OrdersCancelledNewStockKeeping(oldStock, quantity) == oldStock

\* const newStock = oldStock + item.quantity
OrdersCancelledNewStock(oldStock, quantity) == oldStock + quantity

\* a refund that does not restock
RefundsCreateNewStockKeeping(oldStock, quantity) == oldStock

\* const newStock = oldStock + refundItem.quantity
RefundsCreateNewStock(oldStock, quantity) == oldStock + quantity

NewStock(topic, oldStock, quantity) ==
    CASE topic = "orders/create" -> OrdersCreateNewStock(oldStock, quantity)
      [] topic = "orders/cancelled" -> OrdersCancelledNewStock(oldStock, quantity)
      [] topic = "refunds/create" -> RefundsCreateNewStock(oldStock, quantity)

\* a stock event is received: the loop runs up to its first query
ReceiveStockEvent(ev) ==
    LET items == IF ev.topic = "refunds/create" THEN ev.body.refund_line_items
                 ELSE ev.body.line_items
        j == NextItem(ev.topic, items, 1)
    IN IF j > Len(items) THEN Receive(ev, "done", 200, j) ELSE Receive(ev, "find", 0, j)

\* a handler that gives up on a line item whose variant it does not find
LineItemFindOrFail(r, topic) ==
    LET req == reqs[r]
        item == LineItems(req)[req.i]
        variant == findVariantByShopifyId(LineVariantId(topic, item))
    IN /\ req.pc = "find"
       /\ req.topic = topic
       /\ reqs' = [reqs EXCEPT ![r] =
                     IF variant.id = 0 THEN Respond(req, 500)
                     ELSE [req EXCEPT !.pc = "stock", !.row = variant]]
       /\ StoreUnchanged
       /\ UNCHANGED <<delivered, nEvents>>

\* const variant = await findVariantByShopifyId(item.variant_id)
LineItemFind(r, topic) ==
    LET req == reqs[r]
        item == LineItems(req)[req.i]
        variant == findVariantByShopifyId(LineVariantId(topic, item))
    IN /\ req.pc = "find"
       /\ req.topic = topic
       /\ reqs' = [reqs EXCEPT ![r] =
                     IF variant.id = 0 THEN Advance(req)
                     ELSE [req EXCEPT !.pc = "stock", !.row = variant]]
       /\ StoreUnchanged
       /\ UNCHANGED <<delivered, nEvents>>

\* await updateVariantStock(variant.id, newStock)
LineItemStock(r, topic) ==
    LET req == reqs[r]
        item == LineItems(req)[req.i]
    IN /\ req.pc = "stock"
       /\ req.topic = topic
       /\ updateVariantStock(req.row.id, NewStock(topic, req.row.stock, item.quantity))
       /\ reqs' = [reqs EXCEPT ![r] =
                     Advance(IF topic = "orders/create"
                             THEN checkLowStock(Wrote(req, variants' # variants),
                                                NewStock(topic, req.row.stock, item.quantity))
                             ELSE Wrote(req, variants' # variants))]
       /\ UNCHANGED <<products, nextProductId, nextVariantId, delivered, nEvents>>

OrdersCreateFind(r) == LineItemFind(r, "orders/create")
OrdersCreateStock(r) == LineItemStock(r, "orders/create")
OrdersCancelledFind(r) == LineItemFind(r, "orders/cancelled")
OrdersCancelledStock(r) == LineItemStock(r, "orders/cancelled")
RefundsCreateFind(r) == LineItemFind(r, "refunds/create")
RefundsCreateStock(r) == LineItemStock(r, "refunds/create")

----------------------------------------------------------------------------
(* inventory-levels/update *)

\* UPDATE product_variants SET stock = $1, updated_at = CURRENT_TIMESTAMP
\* WHERE shopify_inventory_item_id = $2 RETURNING id, sku, title, stock
SetStockByInventoryItem(siid, available) ==
    variants' = {IF SqlEquals(v.shopify_inventory_item_id, siid)
                 THEN [v EXCEPT !.stock = SqlNum(available)]
                 ELSE v : v \in variants}

\* an inventory handler that asks the platform for the level first
ReceiveInventoryLevelAsking(ev) == Receive(ev, "remote", 0, 1)

ReceiveInventoryLevel(ev) == Receive(ev, "update", 0, 1)

\* the UPDATE, and checkLowStock on the row it returns, if it returns one
InventoryLevelsUpdate(r) ==
    LET req == reqs[r]
    IN /\ req.pc = "update"
       /\ req.topic = "inventory_levels/update"
       /\ SetStockByInventoryItem(req.body.inventory_item_id, req.body.available)
       /\ reqs' = [reqs EXCEPT ![r] =
                     Respond(IF \E v \in variants :
                                   SqlEquals(v.shopify_inventory_item_id,
                                             req.body.inventory_item_id)
                             THEN checkLowStock(Wrote(req, variants' # variants),
                                                SqlNum(req.body.available))
                             ELSE Wrote(req, variants' # variants), 200)]
       /\ UNCHANGED <<products, nextProductId, nextVariantId, delivered, nEvents>>

----------------------------------------------------------------------------
(* POST /api/shopify/update-stock/:variantId, the operator's stock set *)

\* the checks of the body, before the first query
ReceiveUpdateStock(ev) ==
    IF ev.body.stock \in {UndefNum, NullNum} \/ ev.body.stock < 0
    THEN Receive(ev, "done", 400, 1)
    ELSE Receive(ev, "select", 0, 1)

UpdateStockSelect(r) ==
    LET req == reqs[r]
        variant == SelectVariantById(req.body.variantId)
    IN /\ req.pc = "select"
       /\ req.topic = "update-stock"
       /\ reqs' = [reqs EXCEPT ![r] =
                     IF variant.id = 0 THEN Respond(req, 404)
                     ELSE IF FalsyNum(variant.shopify_inventory_item_id) THEN Respond(req, 400)
                     ELSE [req EXCEPT !.pc = "remote", !.row = variant]]
       /\ StoreUnchanged
       /\ UNCHANGED <<delivered, nEvents>>

\* await shopifyService.updateInventory(...): the platform accepts the set, or
\* the call throws and the handler answers 500
UpdateStockRemote(r) ==
    LET req == reqs[r]
    IN /\ req.pc = "remote"
       /\ req.topic = "update-stock"
       /\ \E ok \in BOOLEAN :
            reqs' = [reqs EXCEPT ![r] =
                       IF ok THEN [req EXCEPT !.pc = "write"] ELSE Respond(req, 500)]
       /\ StoreUnchanged
       /\ UNCHANGED <<delivered, nEvents>>

\* UPDATE product_variants SET stock = $1, updated_at = CURRENT_TIMESTAMP WHERE id = $2
UpdateStockWrite(r) ==
    LET req == reqs[r]
    IN /\ req.pc = "write"
       /\ req.topic = "update-stock"
       /\ variants' = {IF v.id = req.body.variantId
                       THEN [v EXCEPT !.stock = req.body.stock]
                       ELSE v : v \in variants}
       /\ reqs' = [reqs EXCEPT ![r] =
                     Respond(Wrote(req, variants' # variants), 200)]
       /\ UNCHANGED <<products, nextProductId, nextVariantId, delivered, nEvents>>

----------------------------------------------------------------------------
(* The merge of a product snapshot: products/create, products/update,      *)
(* POST /api/shopify/sync-product/:productId and, product by product,      *)
(* POST /api/shopify/sync-all-products.  A push handler merges its body; a *)
(* pull import merges what it has fetched.                                 *)

PullTopics == {"sync-product", "sync-all-products"}

\* syncProductFromShopify: the fetched product, formatted for the database
syncProductFromShopify(product) ==
    [shopify_product_id |-> product.id,
     name |-> product.title,
     description |-> product.body_html,
     product_type |-> product.product_type,
     vendor |-> product.vendor,
     status |-> product.status,
     variants |-> [k \in DOMAIN product.variants |->
        LET v == product.variants[k]
        IN [shopify_variant_id |-> v.id,
            shopify_inventory_item_id |-> v.inventory_item_id,
            sku |-> v.sku, title |-> v.title,
            option1 |-> v.option1, option2 |-> v.option2, option3 |-> v.option3,
            price |-> parseFloat(v.price),
            compare_at_price |-> IF FalsyText(v.compare_at_price) THEN NullNum
                                 ELSE parseFloat(v.compare_at_price),
            stock |-> OrNum(v.inventory_quantity, 0),
            weight |-> v.weight, weight_unit |-> v.weight_unit]]]

\* VALUES of INSERT INTO products, in sync-product
SyncProductRow(id, productData) ==
    [id |-> id,
     shopify_product_id |-> productData.shopify_product_id,
     name |-> SqlText(productData.name),
     description |-> SqlText(productData.description),
     product_type |-> SqlText(productData.product_type),
     vendor |-> SqlText(productData.vendor),
     status |-> SqlText(productData.status)]

\* VALUES of INSERT INTO products, in sync-all-products
BulkProductRow(id, product) ==
    [id |-> id,
     shopify_product_id |-> product.id,
     name |-> SqlText(product.title),
     description |-> SqlText(product.body_html),
     product_type |-> SqlText(product.product_type),
     vendor |-> SqlText(product.vendor),
     status |-> SqlText(product.status)]

\* the descriptive columns sync-all-products binds in its variant UPDATE
BulkVariantFields(variant) ==
    [sku |-> variant.sku, title |-> variant.title,
     option1 |-> variant.option1, option2 |-> variant.option2, option3 |-> variant.option3,
     price |-> parseFloat(variant.price),
     compare_at_price |-> IF FalsyText(variant.compare_at_price) THEN NullNum
                          ELSE parseFloat(variant.compare_at_price),
     stock |-> OrNum(parseInt(variant.inventory_quantity), 0),
     weight |-> variant.weight, weight_unit |-> variant.weight_unit]

\* const product = req.body, or the product a pull import is merging
Snapshot(req) == IF req.topic \in PullTopics THEN req.product ELSE req.body

\* the row the handler of req binds for its product, under local id `id`
ProductRowOf(req, id) ==
    CASE req.topic = "sync-product" -> SyncProductRow(id, syncProductFromShopify(req.product))
      [] req.topic = "sync-all-products" -> BulkProductRow(id, req.product)
      [] OTHER -> WebhookProductRow(id, req.body)

\* the descriptive columns the handler of req binds to UPDATE its k-th variant
VariantFieldsOf(req, k) ==
    CASE req.topic = "sync-product" -> syncProductFromShopify(req.product).variants[k]
      [] req.topic = "sync-all-products" -> BulkVariantFields(req.product.variants[k])
      [] OTHER -> WebhookVariantFields(req.body.variants[k])

\* and to INSERT it: sync-all-products gives the SKU a default there
InsertFieldsOf(req, k) ==
    IF req.topic = "sync-all-products"
    THEN [BulkVariantFields(req.product.variants[k]) EXCEPT
             !.sku = OrText(req.product.variants[k].sku, DefaultSku(req.product.variants[k].id))]
    ELSE VariantFieldsOf(req, k)

\* UPDATE products SET name, description, product_type, vendor, status
\* WHERE shopify_product_id = $6
UpdateProduct(row) ==
    products' = {IF p.shopify_product_id = row.shopify_product_id
                 THEN [row EXCEPT !.id = p.id] ELSE p : p \in products}

\* UPDATE product_variants SET <descriptive columns> WHERE shopify_variant_id = $11
UpdateVariantWebhook(svid, f) ==
    variants' = {IF v.shopify_variant_id = svid THEN SetVariantFields(v, f) ELSE v
                 : v \in variants}

\* the same with shopify_inventory_item_id = $11 WHERE shopify_variant_id = $12
UpdateVariantSync(svid, siid, f) ==
    variants' = {IF v.shopify_variant_id = svid
                 THEN [SetVariantFields(v, f) EXCEPT !.shopify_inventory_item_id = SqlNum(siid)]
                 ELSE v : v \in variants}

\* the variant UPDATE of sync-product is accepted
VariantSyncOk(svid, siid, f) ==
    \A v \in variants : v.shopify_variant_id = svid
        => VariantUnique([SetVariantFields(v, f) EXCEPT
                             !.shopify_inventory_item_id = SqlNum(siid)], variants \ {v})

\* sync-all-products turns to product j of the fetched page, or answers 200
\* with its counters when the page is done
StartProduct(req, j) ==
    IF j > Len(req.fetched) THEN Respond([req EXCEPT !.j = j], 200)
    ELSE [req EXCEPT !.j = j, !.product = req.fetched[j], !.pc = "select", !.i = 1,
                     !.dbProductId = 0]

\* created++, updated++, failed++ of sync-all-products
Count(req, counter) ==
    IF req.topic = "sync-all-products" THEN [req EXCEPT !.counts[counter] = @ + 1] ELSE req

\* a bulk import that gives up at the first product that fails
FailAborting(req) == Respond(req, 500)

\* a statement has thrown: the handler's catch answers 500; the catch inside
\* the loop of sync-all-products counts the product as failed and goes on
Fail(req) ==
    IF req.topic = "sync-all-products" THEN StartProduct(Count(req, "failed"), req.j + 1)
    ELSE Respond(req, 500)

\* the loop over the variants is over: a push handler answers 200,
\* sync-product reads the product back first, sync-all-products goes on
Finish(req) ==
    CASE req.topic = "sync-product" -> [req EXCEPT !.pc = "read"]
      [] req.topic = "sync-all-products" -> StartProduct(req, req.j + 1)
      [] OTHER -> Respond(req, 200)

\* the first query of the loop body for variant i
VariantStep(req, i) ==
    IF i > Len(Snapshot(req).variants) THEN Finish([req EXCEPT !.i = i])
    ELSE [req EXCEPT !.i = i,
                     !.pc = IF req.topic = "products/create" THEN "insertVariant"
                            ELSE "findVariant"]


\* products/create: `if (!product.id || !product.title) throw`, caught as 500
ReceiveProductsCreate(ev) ==
    IF FalsyNum(ev.body.id) \/ FalsyText(ev.body.title)
    THEN Receive(ev, "done", 500, 1)
    ELSE Receive(ev, "select", 0, 1)

ReceiveProductsUpdate(ev) == Receive(ev, "select", 0, 1)

ReceiveProductsDelete(ev) == Receive(ev, "delete", 0, 1)

\* sync-product starts with the remote call
ReceiveSyncProduct(ev) == Receive(ev, "fetch", 0, 1)

\* and so does sync-all-products
ReceiveSyncAll(ev) == Receive(ev, "fetch", 0, 1)

\* SELECT id FROM products WHERE shopify_product_id = $1, and the branch on it
MergeSelect(r, topic) ==
    LET req == reqs[r]
        existingProduct == SelectProduct(Snapshot(req).id)
    IN /\ req.pc = "select"
       /\ req.topic = topic
       /\ reqs' = [reqs EXCEPT ![r] =
                     IF existingProduct.id = 0 THEN [req EXCEPT !.pc = "insert"]
                     ELSE IF topic = "products/create" THEN Respond(req, 200)
                     ELSE [req EXCEPT !.pc = "update", !.dbProductId = existingProduct.id]]
       /\ StoreUnchanged
       /\ UNCHANGED <<delivered, nEvents>>

\* INSERT INTO products ... RETURNING id; a duplicate key is caught as 500
MergeInsertProduct(r, topic) ==
    LET req == reqs[r]
        row == ProductRowOf(req, nextProductId)
    IN /\ req.pc = "insert"
       /\ req.topic = topic
       /\ nextProductId' = nextProductId + 1
       /\ IF ProductUnique(row)
          THEN /\ products' = products \cup {row}
               /\ reqs' = [reqs EXCEPT ![r] =
                             VariantStep([Count(Wrote(req, TRUE), "created") EXCEPT
                                             !.dbProductId = row.id], 1)]
          ELSE /\ products' = products
               /\ reqs' = [reqs EXCEPT ![r] = Fail(req)]
       /\ UNCHANGED <<variants, nextVariantId, delivered, nEvents>>

\* UPDATE products ... WHERE shopify_product_id = $6
MergeUpdateProduct(r, topic) ==
    LET req == reqs[r]
        row == ProductRowOf(req, req.dbProductId)
    IN /\ req.pc = "update"
       /\ req.topic = topic
       /\ UpdateProduct(row)
       /\ reqs' = [reqs EXCEPT ![r] =
                     VariantStep(Count(Wrote(req, products' # products), "updated"), 1)]
       /\ UNCHANGED <<variants, nextProductId, nextVariantId, delivered, nEvents>>

\* SELECT id FROM product_variants WHERE shopify_variant_id = $1
MergeFindVariant(r, topic) ==
    LET req == reqs[r]
        existingVariant == findVariantByShopifyId(Snapshot(req).variants[req.i].id)
    IN /\ req.pc = "findVariant"
       /\ req.topic = topic
       /\ reqs' = [reqs EXCEPT ![r] =
                     [req EXCEPT !.pc = IF existingVariant.id = 0 THEN "insertVariant"
                                        ELSE "updateVariant"]]
       /\ StoreUnchanged
       /\ UNCHANGED <<delivered, nEvents>>

\* whether the store takes `price` for product_variants.price: the type of
\* the column is not in the sources; NUMERIC stores NaN, another type or a
\* CHECK makes the statement throw
PriceBinds(price) == IF price = NaN THEN BOOLEAN ELSE {TRUE}

\* UPDATE product_variants ... WHERE shopify_variant_id = $n
MergeUpdateVariant(r, topic) ==
    LET req == reqs[r]
        variant == Snapshot(req).variants[req.i]
        f == VariantFieldsOf(req, req.i)
        ok == IF topic \in PullTopics
              THEN VariantSyncOk(variant.id, variant.inventory_item_id, f)
              ELSE VariantUpdateOk(variant.id, f)
    IN /\ req.pc = "updateVariant"
       /\ req.topic = topic
       /\ \E binds \in PriceBinds(f.price) :
          IF ok /\ binds
          THEN /\ IF topic \in PullTopics
                  THEN UpdateVariantSync(variant.id, variant.inventory_item_id, f)
                  ELSE UpdateVariantWebhook(variant.id, f)
               /\ reqs' = [reqs EXCEPT ![r] =
                             VariantStep(Wrote(req, variants' # variants), req.i + 1)]
          ELSE /\ variants' = variants
               /\ reqs' = [reqs EXCEPT ![r] = Fail(req)]
       /\ UNCHANGED <<products, nextProductId, nextVariantId, delivered, nEvents>>

\* INSERT INTO product_variants ...; a duplicate key or a missing product
\* is caught as 500
MergeInsertVariant(r, topic) ==
    LET req == reqs[r]
        variant == Snapshot(req).variants[req.i]
        row == VariantRow(nextVariantId, req.dbProductId, variant.id,
                          variant.inventory_item_id, InsertFieldsOf(req, req.i))
    IN /\ req.pc = "insertVariant"
       /\ req.topic = topic
       /\ nextVariantId' = nextVariantId + 1
       /\ \E binds \in PriceBinds(row.price) :
          IF VariantInsertOk(row) /\ binds
          THEN /\ variants' = variants \cup {row}
               /\ reqs' = [reqs EXCEPT ![r] = VariantStep(Wrote(req, TRUE), req.i + 1)]
          ELSE /\ variants' = variants
               /\ reqs' = [reqs EXCEPT ![r] = Fail(req)]
       /\ UNCHANGED <<products, nextProductId, delivered, nEvents>>

\* a products/create that inserts without looking for the product
ProductsCreateSelectBlind(r) ==
    /\ reqs[r].pc = "select"
    /\ reqs[r].topic = "products/create"
    /\ reqs' = [reqs EXCEPT ![r] = [reqs[r] EXCEPT !.pc = "insert"]]
    /\ StoreUnchanged
    /\ UNCHANGED <<delivered, nEvents>>

ProductsCreateSelect(r) == MergeSelect(r, "products/create")
ProductsCreateInsert(r) == MergeInsertProduct(r, "products/create")
ProductsCreateVariant(r) == MergeInsertVariant(r, "products/create")

ProductsUpdateSelect(r) == MergeSelect(r, "products/update")
\* a products/update that gives up on a product it does not know
ProductsUpdateInsertRefusing(r) ==
    /\ reqs[r].pc = "insert"
    /\ reqs[r].topic = "products/update"
    /\ reqs' = [reqs EXCEPT ![r] = Respond(reqs[r], 404)]
    /\ StoreUnchanged
    /\ UNCHANGED <<delivered, nEvents>>

ProductsUpdateInsert(r) == MergeInsertProduct(r, "products/update")
ProductsUpdateProduct(r) == MergeUpdateProduct(r, "products/update")
ProductsUpdateFindVariant(r) == MergeFindVariant(r, "products/update")
ProductsUpdateVariant(r) == MergeUpdateVariant(r, "products/update")
ProductsUpdateInsertVariant(r) == MergeInsertVariant(r, "products/update")

\* a products/delete that removes the product row and leaves its variants
ProductsDeleteKeepingVariants(r) ==
    LET req == reqs[r]
    IN /\ req.pc = "delete"
       /\ req.topic = "products/delete"
       /\ products' = {p \in products : p.shopify_product_id # req.body.id}
       /\ reqs' = [reqs EXCEPT ![r] =
                     Respond(Wrote(req, products' # products), 200)]
       /\ UNCHANGED <<variants, nextProductId, nextVariantId, delivered, nEvents>>

\* DELETE FROM products WHERE shopify_product_id = $1 RETURNING id, name:
\* 200 whether or not a row was deleted
ProductsDelete(r) ==
    LET req == reqs[r]
    IN /\ req.pc = "delete"
       /\ req.topic = "products/delete"
       /\ DeleteProduct(req.body.id)
       /\ reqs' = [reqs EXCEPT ![r] =
                     Respond(Wrote(req, products' # products), 200)]
       /\ UNCHANGED <<nextProductId, nextVariantId, delivered, nEvents>>

\* await shopifyService.syncProductFromShopify(productId): getProduct gives
\* one of the products the platform may hold under that id, or throws
\* `Failed to fetch product ${productId}`, which the handler answers with 500
SyncProductFetch(r, remote) ==
    LET req == reqs[r]
    IN /\ req.pc = "fetch"
       /\ req.topic = "sync-product"
       /\ \/ \E product \in {p \in remote : p.id = req.body.productId} :
               reqs' = [reqs EXCEPT ![r] = [req EXCEPT !.pc = "select", !.product = product]]
          \/ reqs' = [reqs EXCEPT ![r] = Respond(req, 500)]
       /\ StoreUnchanged
       /\ UNCHANGED <<delivered, nEvents>>

SyncProductSelect(r) == MergeSelect(r, "sync-product")
SyncProductInsert(r) == MergeInsertProduct(r, "sync-product")
SyncProductUpdate(r) == MergeUpdateProduct(r, "sync-product")
SyncProductFindVariant(r) == MergeFindVariant(r, "sync-product")
SyncProductVariant(r) == MergeUpdateVariant(r, "sync-product")
SyncProductInsertVariant(r) == MergeInsertVariant(r, "sync-product")

\* the closing SELECT of the product with its variants, and res.json: 200
SyncProductRead(r) ==
    LET req == reqs[r]
    IN /\ req.pc = "read"
       /\ req.topic = "sync-product"
       /\ reqs' = [reqs EXCEPT ![r] = Respond(req, 200)]
       /\ StoreUnchanged
       /\ UNCHANGED <<delivered, nEvents>>

\* ?limit=250
PageLimit == 250

\* GET /products.json?limit=n answers with the first n products of the
\* catalogue (and a Link header to the next page)
FirstPage(catalogue, limit) ==
    SubSeq(catalogue, 1, IF Len(catalogue) <= limit THEN Len(catalogue) ELSE limit)

\* const response = await shopifyService.api.get('/products.json?limit=250'):
\* the first page of the catalogue the platform holds, which is all the
\* handler reads, or the call throws and the outer catch answers 500
SyncAllFetch(r, catalogues) ==
    LET req == reqs[r]
    IN /\ req.pc = "fetch"
       /\ req.topic = "sync-all-products"
       /\ \/ \E catalogue \in catalogues :
               reqs' = [reqs EXCEPT ![r] =
                         StartProduct([req EXCEPT !.fetched = FirstPage(catalogue, PageLimit),
                                                  !.remote = catalogue], 1)]
          \/ reqs' = [reqs EXCEPT ![r] = Respond(req, 500)]
       /\ StoreUnchanged
       /\ UNCHANGED <<delivered, nEvents>>

SyncAllSelect(r) == MergeSelect(r, "sync-all-products")
SyncAllInsert(r) == MergeInsertProduct(r, "sync-all-products")
SyncAllUpdate(r) == MergeUpdateProduct(r, "sync-all-products")
SyncAllFindVariant(r) == MergeFindVariant(r, "sync-all-products")
SyncAllVariant(r) == MergeUpdateVariant(r, "sync-all-products")
SyncAllInsertVariant(r) == MergeInsertVariant(r, "sync-all-products")

\* a pending db.query rejects (the connection is lost, the statement times
\* out): the handler's catch takes over; what was written stays written
QueryFails(r) ==
    LET req == reqs[r]
    IN /\ Active(r)
       /\ req.pc \notin {"fetch", "remote"}
       /\ reqs' = [reqs EXCEPT ![r] = Fail(req)]
       /\ StoreUnchanged
       /\ UNCHANGED <<delivered, nEvents>>

----------------------------------------------------------------------------
(* The remote steps with the replies of the platform spelled out.          *)

\* the replies the platform may give
Replies == {200, 404, 429, 500, 503, NoReply}

\* an update-stock that goes on to its UPDATE whatever the platform answered
UpdateInventoryCallUnchecked(r) ==
    LET req == reqs[r]
    IN /\ req.pc = "remote"
       /\ req.topic = "update-stock"
       /\ \E reply \in Replies :
            reqs' = [reqs EXCEPT ![r] =
                       [req EXCEPT !.pc = "write",
                                   !.call = retryWithBackoff(req.call, reply)]]
       /\ StoreUnchanged
       /\ UNCHANGED <<delivered, nEvents>>

\* await shopifyService.updateInventory(...) of update-stock, one round of
\* retryWithBackoff at a time: the set is accepted, or the method throws
\* and the handler answers 500
UpdateInventoryCall(r) ==
    LET req == reqs[r]
    IN /\ req.pc = "remote"
       /\ req.topic = "update-stock"
       /\ \E reply \in Replies :
            LET call == retryWithBackoff(req.call, reply)
                next == [req EXCEPT !.call = call]
            IN reqs' = [reqs EXCEPT ![r] =
                          IF call.outcome = "pending" THEN next
                          ELSE IF ServiceCallOk(call) THEN [next EXCEPT !.pc = "write"]
                          ELSE Respond(next, 500)]
       /\ StoreUnchanged
       /\ UNCHANGED <<delivered, nEvents>>

\* what the try block of getProduct throws: the error of the call, or its
\* own error for the status of the response
GetProductThrown(call) ==
    IF call.outcome = "thrown" THEN "Request failed"
    ELSE IF call.reply = 404 THEN "Product not found"
    ELSE "Failed to fetch product: status"

\* catch (error) { throw new Error(`Failed to fetch product ${productId}`) }
getProductError(thrown) == "Failed to fetch product"

\* error.message.includes('not found') ? 404 : 500, over the messages above
SyncProductStatusCode(message) == IF message = "Product not found" THEN 404 ELSE 500

\* await shopifyService.syncProductFromShopify(productId) of sync-product:
\* getProduct under retryWithBackoff; the product, or the method throws
\* `Failed to fetch product ${productId}` and the handler answers 500
GetProductCall(r, remote) ==
    LET req == reqs[r]
        held == {p \in remote : p.id = req.body.productId}
    IN /\ req.pc = "fetch"
       /\ req.topic = "sync-product"
       /\ \E reply \in (IF held = {} THEN Replies \ {200} ELSE Replies \ {404}) :
            LET call == retryWithBackoff(req.call, reply)
                next == [req EXCEPT !.call = call]
            IN IF call.outcome = "pending" THEN reqs' = [reqs EXCEPT ![r] = next]
               ELSE IF ServiceCallOk(call)
               THEN \E product \in held :
                       reqs' = [reqs EXCEPT ![r] =
                                  [next EXCEPT !.pc = "select", !.product = product]]
               ELSE reqs' = [reqs EXCEPT ![r] =
                               Respond(next, SyncProductStatusCode(
                                                getProductError(GetProductThrown(call))))]
       /\ StoreUnchanged
       /\ UNCHANGED <<delivered, nEvents>>

----------------------------------------------------------------------------
(* The push routes.  Each is registered as                                 *)
(* router.post(path, verifyShopifyWebhook, handler): the handler runs when *)
(* the middleware calls next(), and not otherwise.                         *)

PushTopics ==
    {"products/create", "products/update", "products/delete", "inventory_levels/update",
     "orders/create", "orders/cancelled", "refunds/create"}

\* the middleware has answered with `code`: no handler is called
Reject(d, code) ==
    /\ nEvents < MaxEvents
    /\ \E s \in Slots : reqs[s].pc = "idle"
    /\ reqs' = [reqs EXCEPT ![FreeSlot] = NewRequest(d, "done", code, 1)]
    /\ nEvents' = nEvents + 1
    /\ StoreUnchanged
    /\ UNCHANGED delivered

\* the handler registered for the topic of d
Handler(d) ==
    CASE d.topic = "products/create" -> ReceiveProductsCreate(d)
      [] d.topic = "products/update" -> ReceiveProductsUpdate(d)
      [] d.topic = "products/delete" -> ReceiveProductsDelete(d)
      [] d.topic = "inventory_levels/update" -> ReceiveInventoryLevel(d)
      [] d.topic \in {"orders/create", "orders/cancelled", "refunds/create"} ->
             ReceiveStockEvent(d)

\* a POST to a push route: the middleware, then the handler
ReceiveWebhook(d) ==
    LET code == verifyShopifyWebhook(d.auth.hmac, d.auth.secret, RawBodyOf(d.auth.raw))
    IN  IF code = 0 THEN Handler(d) ELSE Reject(d, code)

----------------------------------------------------------------------------
(* The stock ledger: a store holding one imported product, and the events  *)
(* and operator requests that move its stock.                              *)

\* a variant of a product payload, with every field present
PayloadVariant(id, iid, sku, qty) ==
    [id |-> id, inventory_item_id |-> iid, sku |-> sku, title |-> "Red",
     option1 |-> "Red", option2 |-> Undef, option3 |-> Undef,
     price |-> "20", compare_at_price |-> Undef, inventory_quantity |-> qty,
     weight |-> 1, weight_unit |-> "kg"]

\* the product the ledger starts from, its first variant holding q units
SeedProduct(q) ==
    [id |-> 101, title |-> "Shirt", body_html |-> "Cotton", product_type |-> "Apparel",
     vendor |-> "Acme", status |-> "active",
     variants |-> <<PayloadVariant(11, 21, "S-11", q), PayloadVariant(12, 22, "S-12", 4)>>]

SeedStocks == {2, 10}

LineItem(svid, quantity) == [variant_id |-> svid, quantity |-> quantity]
RefundLine(svid, quantity) == [quantity |-> quantity, line_item |-> [variant_id |-> svid]]

InventoryEvents ==
    {[eid |-> 1, topic |-> "inventory_levels/update",
      body |-> [inventory_item_id |-> 21, available |-> 2]],
     [eid |-> 2, topic |-> "inventory_levels/update",
      body |-> [inventory_item_id |-> 21, available |-> -1]],
     [eid |-> 3, topic |-> "inventory_levels/update",
      body |-> [inventory_item_id |-> 29, available |-> 5]]}

StockEvents ==
    {[eid |-> 4, topic |-> "orders/create", body |-> [line_items |-> <<LineItem(11, 1)>>]],
     [eid |-> 5, topic |-> "orders/create",
      body |-> [line_items |-> <<LineItem(11, 3), LineItem(19, 1)>>]],
     [eid |-> 6, topic |-> "orders/cancelled", body |-> [line_items |-> <<LineItem(11, 1)>>]],
     [eid |-> 7, topic |-> "orders/cancelled",
      body |-> [line_items |-> <<LineItem(UndefNum, 2), LineItem(11, 3)>>]],
     [eid |-> 8, topic |-> "refunds/create",
      body |-> [refund_line_items |-> <<RefundLine(11, 3)>>]],
     [eid |-> 9, topic |-> "refunds/create",
      body |-> [refund_line_items |-> <<RefundLine(UndefNum, 1)>>]]}

\* operator requests carry no event id
UpdateStockRequests ==
    {[eid |-> 0, topic |-> "update-stock", body |-> [variantId |-> 1, stock |-> 4]],
     [eid |-> 0, topic |-> "update-stock", body |-> [variantId |-> 1, stock |-> -1]],
     [eid |-> 0, topic |-> "update-stock", body |-> [variantId |-> 9, stock |-> 4]]}

\* the store after the seed product has been imported, no request in flight
Seeded(q) ==
    /\ products = {WebhookProductRow(1, SeedProduct(q))}
    /\ variants = {WebhookVariantRow(k, 1, SeedProduct(q).variants[k]) : k \in 1..2}
    /\ nextProductId = 2
    /\ nextVariantId = 3
    /\ reqs = [s \in Slots |-> Idle]
    /\ delivered = {}
    /\ nEvents = 0

Init == \E q \in SeedStocks : Seeded(q)

Next ==
    \/ \E ev \in InventoryEvents : ReceiveInventoryLevel(ev)
    \/ \E ev \in StockEvents : ReceiveStockEvent(ev)
    \/ \E ev \in UpdateStockRequests : ReceiveUpdateStock(ev)
    \/ \E r \in Slots : InventoryLevelsUpdate(r)
    \/ \E r \in Slots : OrdersCreateFind(r)
    \/ \E r \in Slots : OrdersCreateStock(r)
    \/ \E r \in Slots : OrdersCancelledFind(r)
    \/ \E r \in Slots : OrdersCancelledStock(r)
    \/ \E r \in Slots : RefundsCreateFind(r)
    \/ \E r \in Slots : RefundsCreateStock(r)
    \/ \E r \in Slots : UpdateStockSelect(r)
    \/ \E r \in Slots : UpdateStockRemote(r)
    \/ \E r \in Slots : UpdateStockWrite(r)
    \/ \E r \in Slots : Retire(r)

Spec == Init /\ [][Next]_vars

----------------------------------------------------------------------------
(* The merges: the same store, and the product events and pull imports     *)
(* that reach it, any pending query of which may fail.                     *)

\* a variant of a product payload that carries its ids, its price and its
\* quantity only
BareVariant(id, iid, qty) ==
    [id |-> id, inventory_item_id |-> iid, sku |-> Undef, title |-> Undef,
     option1 |-> Undef, option2 |-> Undef, option3 |-> Undef,
     price |-> "20", compare_at_price |-> Undef, inventory_quantity |-> qty,
     weight |-> UndefNum, weight_unit |-> Undef]

\* a product the store does not hold yet
NewProduct ==
    [id |-> 102, title |-> "Mug", body_html |-> "Stoneware", product_type |-> "Kitchen",
     vendor |-> "Acme", status |-> "draft",
     variants |-> <<PayloadVariant(13, 23, "M-13", 5)>>]

\* the seed product, sent with its title and one variant's ids and quantity
PartialProduct ==
    [id |-> 101, title |-> "Shirt", body_html |-> Undef, product_type |-> Undef,
     vendor |-> Undef, status |-> Undef,
     variants |-> <<BareVariant(11, 21, 7)>>]

\* another product, whose snapshot carries a variant id of the seed product
ConflictingProduct ==
    [id |-> 102, title |-> "Mug", body_html |-> "Stoneware", product_type |-> "Kitchen",
     vendor |-> "Acme", status |-> "draft",
     variants |-> <<PayloadVariant(11, 21, "M-11", 3)>>]

ProductsCreateEvents ==
    {[eid |-> 11, topic |-> "products/create", body |-> NewProduct]}

ProductsUpdateEvents ==
    {[eid |-> 13, topic |-> "products/update", body |-> PartialProduct],
     [eid |-> 14, topic |-> "products/update", body |-> ConflictingProduct]}

ProductsDeleteEvents ==
    {[eid |-> 15, topic |-> "products/delete", body |-> [id |-> 101]]}

\* operator requests carry no event id
SyncProductRequests ==
    {[eid |-> 0, topic |-> "sync-product", body |-> [productId |-> 102]]}

SyncAllRequests ==
    {[eid |-> 0, topic |-> "sync-all-products", body |-> [limit |-> 250]]}

\* what the platform may hold when a pull import fetches
RemoteProducts == {NewProduct}

\* and the catalogues it may list
RemotePages == {<<PartialProduct, NewProduct>>}

InitMerge == Seeded(10)

NextMerge ==
    \/ \E ev \in ProductsCreateEvents : ReceiveProductsCreate(ev)
    \/ \E ev \in ProductsUpdateEvents : ReceiveProductsUpdate(ev)
    \/ \E ev \in ProductsDeleteEvents : ReceiveProductsDelete(ev)
    \/ \E ev \in SyncProductRequests : ReceiveSyncProduct(ev)
    \/ \E r \in Slots : ProductsCreateSelect(r)
    \/ \E r \in Slots : ProductsCreateInsert(r)
    \/ \E r \in Slots : ProductsCreateVariant(r)
    \/ \E r \in Slots : ProductsUpdateSelect(r)
    \/ \E r \in Slots : ProductsUpdateInsert(r)
    \/ \E r \in Slots : ProductsUpdateProduct(r)
    \/ \E r \in Slots : ProductsUpdateFindVariant(r)
    \/ \E r \in Slots : ProductsUpdateVariant(r)
    \/ \E r \in Slots : ProductsUpdateInsertVariant(r)
    \/ \E r \in Slots : ProductsDelete(r)
    \/ \E r \in Slots : SyncProductFetch(r, RemoteProducts)
    \/ \E r \in Slots : SyncProductSelect(r)
    \/ \E r \in Slots : SyncProductInsert(r)
    \/ \E r \in Slots : SyncProductUpdate(r)
    \/ \E r \in Slots : SyncProductFindVariant(r)
    \/ \E r \in Slots : SyncProductVariant(r)
    \/ \E r \in Slots : SyncProductInsertVariant(r)
    \/ \E r \in Slots : SyncProductRead(r)
    \/ \E ev \in SyncAllRequests : ReceiveSyncAll(ev)
    \/ \E r \in Slots : SyncAllFetch(r, RemotePages)
    \/ \E r \in Slots : SyncAllSelect(r)
    \/ \E r \in Slots : SyncAllInsert(r)
    \/ \E r \in Slots : SyncAllUpdate(r)
    \/ \E r \in Slots : SyncAllFindVariant(r)
    \/ \E r \in Slots : SyncAllVariant(r)
    \/ \E r \in Slots : SyncAllInsertVariant(r)
    \/ \E r \in Slots : QueryFails(r)
    \/ \E r \in Slots : Retire(r)

SpecMerge == InitMerge /\ [][NextMerge]_vars

----------------------------------------------------------------------------
(* The push routes behind the verifier: one event per route, delivered     *)
(* with and without a signature, signed with the shop's secret and with    *)
(* another one, to a process that has the secret configured or has not.    *)

\* a new product whose snapshot carries no status
StatuslessProduct ==
    [id |-> 103, title |-> "Cap", body_html |-> "Wool", product_type |-> "Apparel",
     vendor |-> "Acme", status |-> Undef,
     variants |-> <<PayloadVariant(14, 24, "C-14", 6), PayloadVariant(15, 25, "C-15", 0)>>]

PushEvents ==
    {[eid |-> 21, topic |-> "products/create", body |-> StatuslessProduct],
     [eid |-> 13, topic |-> "products/update", body |-> PartialProduct],
     [eid |-> 15, topic |-> "products/delete", body |-> [id |-> 101]],
     [eid |-> 1, topic |-> "inventory_levels/update",
      body |-> [inventory_item_id |-> 21, available |-> 2]],
     [eid |-> 4, topic |-> "orders/create", body |-> [line_items |-> <<LineItem(11, 1)>>]],
     [eid |-> 6, topic |-> "orders/cancelled", body |-> [line_items |-> <<LineItem(11, 1)>>]],
     [eid |-> 8, topic |-> "refunds/create",
      body |-> [refund_line_items |-> <<RefundLine(11, 3)>>]]}

\* the secret the shop signs with, and another one
ShopSecret == "shop-secret"
OtherSecret == "other-secret"

\* SHOPIFY_WEBHOOK_SECRET of the process: set, or not set
Environments == {ShopSecret, Undef}

\* the bytes of the JSON text of an event
BytesOf(ev) == <<"{", ToString(ev.eid), "}">>

\* the same text with U+FFFD in it, and with a byte that is not UTF-8 in
\* the place of U+FFFD
BytesWithReplacementChar(ev) == <<"{", ToString(ev.eid), "EFBFBD", "}">>
BytesWithInvalidByte(ev) == <<"{", ToString(ev.eid), "FF", "}">>

\* the header a sender holding `secret` computes over the bytes it sends
Signature(secret, bytes) == Base64(Hmac(secret, bytes))

\* a header cut short by one character
Truncated(header) == [header EXCEPT !.length = header.length - 1]

Delivery(ev, secret, raw, hmac) ==
    [eid |-> ev.eid, topic |-> ev.topic, body |-> ev.body, auth |-> Auth(secret, raw, hmac)]

\* the deliveries of an event: signed by the shop or without a header, to a
\* process with the secret or without
Deliveries(ev) ==
    {Delivery(ev, secret, BytesOf(ev), hmac) :
        secret \in Environments,
        hmac \in {NoHeader, Signature(ShopSecret, BytesOf(ev))}}

\* deliveries of the inventory event: signed with another secret; the shop's
\* signature cut short; a text that is not plain ASCII, signed by the shop;
\* that text sent on by a third party with one byte changed, under the
\* shop's signature of the original; and a signed request without a body
OddDeliveries ==
    LET ev == CHOOSE e \in PushEvents : e.topic = "inventory_levels/update"
    IN  {Delivery(ev, ShopSecret, BytesOf(ev), Signature(OtherSecret, BytesOf(ev))),
         Delivery(ev, ShopSecret, BytesOf(ev), Truncated(Signature(ShopSecret, BytesOf(ev)))),
         Delivery(ev, ShopSecret, BytesWithReplacementChar(ev),
                  Signature(ShopSecret, BytesWithReplacementChar(ev))),
         Delivery(ev, ShopSecret, BytesWithInvalidByte(ev),
                  Signature(ShopSecret, BytesWithInvalidByte(ev))),
         Delivery(ev, ShopSecret, BytesWithInvalidByte(ev),
                  Signature(ShopSecret, BytesWithReplacementChar(ev))),
         Delivery(ev, ShopSecret, <<>>, Signature(ShopSecret, <<>>))}

PushDeliveries == UNION {Deliveries(ev) : ev \in PushEvents} \cup OddDeliveries

\* one operator stock set, which does call the platform
PushSideRequests ==
    {[eid |-> 0, topic |-> "update-stock", body |-> [variantId |-> 1, stock |-> 4]]}

InitPush == Seeded(10)

NextPush ==
    \/ \E d \in PushDeliveries : ReceiveWebhook(d)
    \/ \E ev \in PushSideRequests : ReceiveUpdateStock(ev)
    \/ \E r \in Slots : ProductsCreateSelect(r)
    \/ \E r \in Slots : ProductsCreateInsert(r)
    \/ \E r \in Slots : ProductsCreateVariant(r)
    \/ \E r \in Slots : ProductsUpdateSelect(r)
    \/ \E r \in Slots : ProductsUpdateInsert(r)
    \/ \E r \in Slots : ProductsUpdateProduct(r)
    \/ \E r \in Slots : ProductsUpdateFindVariant(r)
    \/ \E r \in Slots : ProductsUpdateVariant(r)
    \/ \E r \in Slots : ProductsUpdateInsertVariant(r)
    \/ \E r \in Slots : ProductsDelete(r)
    \/ \E r \in Slots : InventoryLevelsUpdate(r)
    \/ \E r \in Slots : OrdersCreateFind(r)
    \/ \E r \in Slots : OrdersCreateStock(r)
    \/ \E r \in Slots : OrdersCancelledFind(r)
    \/ \E r \in Slots : OrdersCancelledStock(r)
    \/ \E r \in Slots : RefundsCreateFind(r)
    \/ \E r \in Slots : RefundsCreateStock(r)
    \/ \E r \in Slots : UpdateStockSelect(r)
    \/ \E r \in Slots : UpdateStockRemote(r)
    \/ \E r \in Slots : UpdateStockWrite(r)
    \/ \E r \in Slots : Retire(r)

SpecPush == InitPush /\ [][NextPush]_vars

----------------------------------------------------------------------------
(* The round trip: an order of q units of the seed variant, holding s, and *)
(* then the refund of those q units, for every s and q of the bounds.      *)

OrderOf(q) ==
    [eid |-> 31, topic |-> "orders/create", body |-> [line_items |-> <<LineItem(11, q)>>]]

RefundOf(q) ==
    [eid |-> 32, topic |-> "refunds/create",
     body |-> [refund_line_items |-> <<RefundLine(11, q)>>]]

\* the answered order in slot r
OrderDone(r) == reqs[r].pc = "done" /\ reqs[r].eid = OrderOf(1).eid

\* the answered refund in slot t
RefundDone(t) == reqs[t].pc = "done" /\ reqs[t].eid = RefundOf(1).eid

\* the order comes first
ReceiveOrder(q) ==
    /\ OrderOf(q).eid \notin delivered
    /\ ReceiveStockEvent(OrderOf(q))

\* the refund of the ordered quantity comes when the order has been answered
ReceiveRefund(r) ==
    /\ OrderDone(r)
    /\ RefundOf(1).eid \notin delivered
    /\ ReceiveStockEvent(RefundOf(reqs[r].body.line_items[1].quantity))

InitRoundTrip == \E s \in 0..MaxStock : Seeded(s)

NextRoundTrip ==
    \/ \E q \in 1..MaxQuantity : ReceiveOrder(q)
    \/ \E r \in Slots : ReceiveRefund(r)
    \/ \E r \in Slots : OrdersCreateFind(r)
    \/ \E r \in Slots : OrdersCreateStock(r)
    \/ \E r \in Slots : RefundsCreateFind(r)
    \/ \E r \in Slots : RefundsCreateStock(r)

SpecRoundTrip == InitRoundTrip /\ [][NextRoundTrip]_vars

----------------------------------------------------------------------------
(* An order of q units of the seed variant and the event that takes it     *)
(* back, its cancellation or its refund, delivered in either order: the    *)
(* second is received when the first has been answered.                    *)

CancelOf(q) ==
    [eid |-> 33, topic |-> "orders/cancelled", body |-> [line_items |-> <<LineItem(11, q)>>]]

\* the quantity an event of the pair carries
PairQuantity(req) ==
    IF req.topic = "refunds/create" THEN req.body.refund_line_items[1].quantity
    ELSE req.body.line_items[1].quantity

\* the events that may follow the answered event of slot r
Partners(req) ==
    IF req.topic = "orders/create"
    THEN {CancelOf(PairQuantity(req)), RefundOf(PairQuantity(req))}
    ELSE {OrderOf(PairQuantity(req))}

ReceiveFirstOfPair(q) ==
    /\ delivered = {}
    /\ \E ev \in {OrderOf(q), CancelOf(q), RefundOf(q)} : ReceiveStockEvent(ev)

ReceiveSecondOfPair(r) ==
    /\ reqs[r].pc = "done"
    /\ delivered = {reqs[r].eid}
    /\ \E ev \in Partners(reqs[r]) : ReceiveStockEvent(ev)

NextEitherOrder ==
    \/ \E q \in 1..MaxQuantity : ReceiveFirstOfPair(q)
    \/ \E r \in Slots : ReceiveSecondOfPair(r)
    \/ \E r \in Slots : OrdersCreateFind(r)
    \/ \E r \in Slots : OrdersCreateStock(r)
    \/ \E r \in Slots : OrdersCancelledFind(r)
    \/ \E r \in Slots : OrdersCancelledStock(r)
    \/ \E r \in Slots : RefundsCreateFind(r)
    \/ \E r \in Slots : RefundsCreateStock(r)

SpecEitherOrder == InitRoundTrip /\ [][NextEitherOrder]_vars

----------------------------------------------------------------------------
(* The bulk import, one at a time: of a catalogue of three products, the   *)
(* second of which carries a price that is not a number, and of a         *)
(* catalogue one product longer than a page.                               *)

\* a product with one variant of the given price
PricedProduct(id, title, svid, price) ==
    [id |-> id, title |-> title, body_html |-> Undef, product_type |-> "Home",
     vendor |-> "Acme", status |-> "active",
     variants |-> <<[PayloadVariant(svid, svid + 10, DefaultSku(svid), 3) EXCEPT !.price = price]>>]

ScenarioCatalogue ==
    <<PricedProduct(104, "Lamp", 16, "20"),
      PricedProduct(105, "Rug", 17, "N/A"),
      PricedProduct(106, "Vase", 18, "5")>>

\* product n of a long catalogue
CatalogueProduct(n) ==
    [id |-> 1000 + n, title |-> "Item", body_html |-> Undef, product_type |-> Undef,
     vendor |-> Undef, status |-> "active",
     variants |-> <<BareVariant(2000 + n, 3000 + n, 1)>>]

\* a catalogue of `size` products
Catalogue(size) == [n \in 1..size |-> CatalogueProduct(n)]

BulkCatalogues == {ScenarioCatalogue}

\* the platform holds one product more than a page takes
LongCatalogues == {Catalogue(PageLimit + 1)}

\* a bulk import is asked for while no other request is in flight
ReceiveSyncAllAlone(ev) ==
    /\ \A s \in Slots : ~Active(s)
    /\ ReceiveSyncAll(ev)

InitBulk == Seeded(10)

NextBulk ==
    \/ \E ev \in SyncAllRequests : ReceiveSyncAllAlone(ev)
    \/ \E r \in Slots : SyncAllFetch(r, BulkCatalogues)
    \/ \E r \in Slots : SyncAllSelect(r)
    \/ \E r \in Slots : SyncAllInsert(r)
    \/ \E r \in Slots : SyncAllUpdate(r)
    \/ \E r \in Slots : SyncAllFindVariant(r)
    \/ \E r \in Slots : SyncAllVariant(r)
    \/ \E r \in Slots : SyncAllInsertVariant(r)
    \/ \E r \in Slots : Retire(r)

SpecBulk == InitBulk /\ [][NextBulk]_vars

NextCatalogue ==
    \/ \E ev \in SyncAllRequests : ReceiveSyncAllAlone(ev)
    \/ \E r \in Slots : SyncAllFetch(r, LongCatalogues)
    \/ \E r \in Slots : SyncAllSelect(r)
    \/ \E r \in Slots : SyncAllInsert(r)
    \/ \E r \in Slots : SyncAllUpdate(r)
    \/ \E r \in Slots : SyncAllFindVariant(r)
    \/ \E r \in Slots : SyncAllVariant(r)
    \/ \E r \in Slots : SyncAllInsertVariant(r)
    \/ \E r \in Slots : Retire(r)

SpecCatalogue == InitBulk /\ [][NextCatalogue]_vars

----------------------------------------------------------------------------
(* The operator's delete: router.delete('/shopify/:shopifyProductId').      *)

ReceiveDeleteByShopifyId(ev) == Receive(ev, "select", 0, 1)

\* const { syncToShopify = true } = req.query: a query parameter is a string,
\* the default is the boolean
SyncToShopifyParam(query) ==
    IF query.syncToShopify = Undef THEN "true (boolean)" ELSE query.syncToShopify

\* SELECT * FROM products WHERE shopify_product_id = $1: 404 without a row;
\* the platform is asked only if (syncToShopify === 'true')
DeleteByShopifyIdSelect(r) ==
    LET req == reqs[r]
    IN /\ req.pc = "select"
       /\ req.topic = "delete-product"
       /\ reqs' = [reqs EXCEPT ![r] =
                     IF SelectProduct(req.body.shopifyProductId).id = 0
                     THEN Respond(req, 404)
                     ELSE IF SyncToShopifyParam(req.body) = "true"
                     THEN [req EXCEPT !.pc = "remote"]
                     ELSE [req EXCEPT !.pc = "delete"]]
       /\ StoreUnchanged
       /\ UNCHANGED <<delivered, nEvents>>

\* await shopifyService.deleteProduct(shopifyProductId) in a try whose catch
\* only logs: whatever the platform answers, the handler goes on
DeleteByShopifyIdCall(r) ==
    LET req == reqs[r]
    IN /\ req.pc = "remote"
       /\ req.topic = "delete-product"
       /\ \E reply \in Replies :
            LET call == retryWithBackoff(req.call, reply)
                next == [req EXCEPT !.call = call]
            IN reqs' = [reqs EXCEPT ![r] =
                          IF call.outcome = "pending" THEN next
                          ELSE [next EXCEPT !.pc = "delete"]]
       /\ StoreUnchanged
       /\ UNCHANGED <<delivered, nEvents>>

\* DELETE FROM products WHERE shopify_product_id = $1, then res.json
DeleteByShopifyIdDelete(r) ==
    LET req == reqs[r]
    IN /\ req.pc = "delete"
       /\ req.topic = "delete-product"
       /\ DeleteProduct(req.body.shopifyProductId)
       /\ reqs' = [reqs EXCEPT ![r] =
                     Respond(Wrote(req, products' # products), 200)]
       /\ UNCHANGED <<nextProductId, nextVariantId, delivered, nEvents>>

\* the operator deletes the seed product, with and without ?syncToShopify=true
DeleteRequests ==
    {[eid |-> 0, topic |-> "delete-product",
      body |-> [shopifyProductId |-> 101, syncToShopify |-> s]] : s \in {"true", Undef}}

\* deletes by push event and by the operator, beside product updates that
\* write the same product and its variants
NextDelete ==
    \/ \E ev \in ProductsUpdateEvents : ReceiveProductsUpdate(ev)
    \/ \E ev \in ProductsDeleteEvents : ReceiveProductsDelete(ev)
    \/ \E ev \in DeleteRequests : ReceiveDeleteByShopifyId(ev)
    \/ \E r \in Slots : ProductsUpdateSelect(r)
    \/ \E r \in Slots : ProductsUpdateInsert(r)
    \/ \E r \in Slots : ProductsUpdateProduct(r)
    \/ \E r \in Slots : ProductsUpdateFindVariant(r)
    \/ \E r \in Slots : ProductsUpdateVariant(r)
    \/ \E r \in Slots : ProductsUpdateInsertVariant(r)
    \/ \E r \in Slots : ProductsDelete(r)
    \/ \E r \in Slots : DeleteByShopifyIdSelect(r)
    \/ \E r \in Slots : DeleteByShopifyIdCall(r)
    \/ \E r \in Slots : DeleteByShopifyIdDelete(r)
    \/ \E r \in Slots : QueryFails(r)
    \/ \E r \in Slots : Retire(r)

SpecDelete == InitMerge /\ [][NextDelete]_vars

----------------------------------------------------------------------------
(* The first version of sync-product, over the single products table of    *)
(* config/database.js: one row per product, holding its first variant.     *)

\* ShopifyService.syncProductFromShopify of that version: product.variants[0]
syncProductFromShopifyV1(product) ==
    LET variant == product.variants[1]
    IN [shopify_product_id |-> product.id,
        shopify_variant_id |-> variant.id,
        shopify_inventory_item_id |-> variant.inventory_item_id,
        name |-> product.title,
        sku |-> variant.sku,
        price |-> variant.price,
        stock |-> variant.inventory_quantity]

\* the row of products with the columns both statements of the handler bind
SingleTableRow(id, productData) ==
    [id |-> id,
     name |-> productData.name,
     sku |-> SqlText(productData.sku),
     price |-> productData.price,
     stock |-> SqlNum(productData.stock),
     shopify_product_id |-> productData.shopify_product_id,
     shopify_variant_id |-> productData.shopify_variant_id,
     shopify_inventory_item_id |-> productData.shopify_inventory_item_id]

\* sku VARCHAR(100) UNIQUE, for a row written beside the rows `others`
SkuUnique(row, others) == row.sku # Null => \A p \in others : p.sku # row.sku

ReceiveSyncProductV1(ev) == Receive(ev, "fetch", 0, 1)

\* const productData = await shopifyService.syncProductFromShopify(productId)
SyncProductV1Fetch(r, remote) ==
    LET req == reqs[r]
    IN /\ req.pc = "fetch"
       /\ req.topic = "v1/sync-product"
       /\ \/ \E product \in {p \in remote : p.id = req.body.productId} :
               reqs' = [reqs EXCEPT ![r] =
                          [req EXCEPT !.pc = "select",
                                      !.product = syncProductFromShopifyV1(product),
                                      !.remote = <<product>>]]
          \/ reqs' = [reqs EXCEPT ![r] = Respond(req, 500)]
       /\ StoreUnchanged
       /\ UNCHANGED <<delivered, nEvents>>

\* SELECT * FROM products WHERE shopify_product_id = $1 OR sku = $2, and the
\* branch on existingProduct.rows.length; rows[0] is any of the rows found
SyncProductV1Select(r) ==
    LET req == reqs[r]
        existingProduct ==
            {p \in products :
                \/ p.shopify_product_id = req.product.shopify_product_id
                \/ SqlText(req.product.sku) # Null /\ p.sku = req.product.sku}
    IN /\ req.pc = "select"
       /\ req.topic = "v1/sync-product"
       /\ IF existingProduct = {}
          THEN reqs' = [reqs EXCEPT ![r] = [req EXCEPT !.pc = "insert"]]
          ELSE \E row \in existingProduct :
                  reqs' = [reqs EXCEPT ![r] =
                             [req EXCEPT !.pc = "update", !.dbProductId = row.id]]
       /\ StoreUnchanged
       /\ UNCHANGED <<delivered, nEvents>>

\* UPDATE products SET name, sku, price, stock and the three external ids
\* WHERE id = existingProduct.rows[0].id; a duplicate SKU is caught as 500
SyncProductV1Update(r) ==
    LET req == reqs[r]
        row == SingleTableRow(req.dbProductId, req.product)
        others == {p \in products : p.id # req.dbProductId}
    IN /\ req.pc = "update"
       /\ req.topic = "v1/sync-product"
       /\ IF SkuUnique(row, others)
          THEN /\ products' = {IF p.id = req.dbProductId THEN row ELSE p : p \in products}
               /\ reqs' = [reqs EXCEPT ![r] =
                             Respond(Wrote(req, products' # products), 200)]
          ELSE /\ products' = products
               /\ reqs' = [reqs EXCEPT ![r] = Respond(req, 500)]
       /\ UNCHANGED <<variants, nextProductId, nextVariantId, delivered, nEvents>>

\* INSERT INTO products (name, sku, price, stock and the three external
\* ids); a duplicate SKU is caught as 500
SyncProductV1Insert(r) ==
    LET req == reqs[r]
        row == SingleTableRow(nextProductId, req.product)
    IN /\ req.pc = "insert"
       /\ req.topic = "v1/sync-product"
       /\ nextProductId' = nextProductId + 1
       /\ IF SkuUnique(row, products)
          THEN /\ products' = products \cup {row}
               /\ reqs' = [reqs EXCEPT ![r] = Respond(Wrote(req, TRUE), 200)]
          ELSE /\ products' = products
               /\ reqs' = [reqs EXCEPT ![r] = Respond(req, 500)]
       /\ UNCHANGED <<variants, nextVariantId, delivered, nEvents>>

\* a product of the platform whose first variant carries the seed's SKU
SkuTwinProduct ==
    [id |-> 107, title |-> "Scarf", body_html |-> "Wool", product_type |-> "Apparel",
     vendor |-> "Acme", status |-> "active",
     variants |-> <<PayloadVariant(17, 27, "S-11", 3)>>]

SingleTableRemote == {SeedProduct(7), NewProduct, SkuTwinProduct}

SyncProductV1Requests ==
    {[eid |-> 0, topic |-> "v1/sync-product", body |-> [productId |-> n]] :
        n \in {101, 102, 107}}

InitSingleTable ==
    /\ products = {SingleTableRow(1, syncProductFromShopifyV1(SeedProduct(10)))}
    /\ variants = {}
    /\ nextProductId = 2
    /\ nextVariantId = 1
    /\ reqs = [s \in Slots |-> Idle]
    /\ delivered = {}
    /\ nEvents = 0

NextSingleTable ==
    \/ \E ev \in SyncProductV1Requests : ReceiveSyncProductV1(ev)
    \/ \E r \in Slots : SyncProductV1Fetch(r, SingleTableRemote)
    \/ \E r \in Slots : SyncProductV1Select(r)
    \/ \E r \in Slots : SyncProductV1Update(r)
    \/ \E r \in Slots : SyncProductV1Insert(r)
    \/ \E r \in Slots : QueryFails(r)
    \/ \E r \in Slots : Retire(r)

SpecSingleTable == InitSingleTable /\ [][NextSingleTable]_vars

----------------------------------------------------------------------------
(* The operator's create: router.post('/') of productRoutes.js, which      *)
(* creates the product on the platform and then in the store.              *)

\* object.name of a JS object: undefined for a property it does not have
Field(object, name) == IF name \in DOMAIN object THEN object[name] ELSE UndefNum

\* return response.data.product of createProduct: the product as the
\* platform created it, with the ids it minted for request r
CreatedProduct(r, body) ==
    LET base == 200 + 20 * nEvents + (IF r = "r1" THEN 0 ELSE 10)
    IN [id |-> base,
        title |-> body.name,
        variants |-> [k \in 1..Len(body.variants) |->
                        PayloadVariant(base + k, base + 5 + k,
                                       body.variants[k].sku, body.variants[k].stock)]]

\* validateProductData and the checks of the variants, then the first await
ReceiveCreateProduct(ev) ==
    IF \/ FalsyText(ev.body.name)
       \/ Len(ev.body.variants) = 0
       \/ \E k \in DOMAIN ev.body.variants :
             FalsyText(ev.body.variants[k].sku) \/ FalsyText(ev.body.variants[k].price)
    THEN Receive(ev, "done", 400, 1)
    ELSE IF ev.body.syncToShopify THEN Receive(ev, "remote", 0, 1)
    ELSE Receive(ev, "insert", 0, 1)

\* shopifyProductData = await shopifyService.createProduct(...) in a try
\* whose catch only logs: this.api.post('/products.json') resolves with the
\* created product, resolves without one (response.data.product.id throws)
\* or rejects; shopifyProductData stays null unless the product came
CreateProductCall(r) ==
    LET req == reqs[r]
    IN /\ req.pc = "remote"
       /\ req.topic = "create-product"
       /\ \E reply \in Replies :
            LET response == Axios(reply)
                call == [req.call EXCEPT !.attempts = @ + 1, !.reply = reply,
                            !.outcome = IF ~response.rejected /\ reply = 200
                                        THEN "returned" ELSE "thrown"]
            IN reqs' = [reqs EXCEPT ![r] =
                          [req EXCEPT !.pc = "insert", !.call = call,
                              !.product = IF call.outcome = "returned"
                                          THEN CreatedProduct(r, req.body) ELSE NoRow]]
       /\ StoreUnchanged
       /\ UNCHANGED <<delivered, nEvents>>

\* VALUES of INSERT INTO products: shopifyProductData?.shopify_product_id || null, ...
CreateProductRow(id, req) ==
    [id |-> id,
     shopify_product_id |-> OrNum(Field(req.product, "shopify_product_id"), NullNum),
     name |-> req.body.name,
     description |-> OrText(req.body.description, Null),
     product_type |-> OrText(req.body.product_type, "General"),
     vendor |-> OrText(req.body.vendor, "Default Vendor"),
     status |-> "active"]

\* VALUES of INSERT INTO product_variants for variants[k], with
\* shopifyVariant = shopifyProductData?.variants[k] || {}
CreateVariantRow(id, req, k) ==
    LET variant == req.body.variants[k]
        shopifyVariant == IF req.product.id = 0 THEN [none |-> TRUE]
                          ELSE req.product.variants[k]
    IN VariantRow(id, req.dbProductId,
                  OrNum(Field(shopifyVariant, "shopify_variant_id"), NullNum),
                  OrNum(Field(shopifyVariant, "shopify_inventory_item_id"), NullNum),
                  [sku |-> variant.sku,
                   title |-> OrText(variant.title, "Default"),
                   option1 |-> OrText(variant.option1, Null),
                   option2 |-> OrText(variant.option2, Null),
                   option3 |-> OrText(variant.option3, Null),
                   price |-> parseFloat(variant.price),
                   compare_at_price |-> IF FalsyText(variant.compare_at_price) THEN NullNum
                                        ELSE parseFloat(variant.compare_at_price),
                   stock |-> OrNum(parseInt(variant.stock), 0),
                   weight |-> IF FalsyNum(variant.weight) THEN NullNum
                              ELSE parseInt(variant.weight),
                   weight_unit |-> OrText(variant.weight_unit, "kg")])

\* INSERT INTO products ... RETURNING *; error.code 23505 is answered 409
CreateProductInsert(r) ==
    LET req == reqs[r]
        row == CreateProductRow(nextProductId, req)
    IN /\ req.pc = "insert"
       /\ req.topic = "create-product"
       /\ nextProductId' = nextProductId + 1
       /\ IF ProductUnique(row)
          THEN /\ products' = products \cup {row}
               /\ reqs' = [reqs EXCEPT ![r] =
                             [Wrote(req, TRUE) EXCEPT !.pc = "insertVariant",
                                                      !.dbProductId = row.id, !.i = 1]]
          ELSE /\ products' = products
               /\ reqs' = [reqs EXCEPT ![r] = Respond(req, 409)]
       /\ UNCHANGED <<variants, nextVariantId, delivered, nEvents>>

\* INSERT INTO product_variants ... RETURNING * for variants[i]; after the
\* last one res.status(201); a duplicate key is answered 409, a missing
\* product 500
CreateProductInsertVariant(r) ==
    LET req == reqs[r]
        row == CreateVariantRow(nextVariantId, req, req.i)
    IN /\ req.pc = "insertVariant"
       /\ req.topic = "create-product"
       /\ nextVariantId' = nextVariantId + 1
       /\ IF VariantInsertOk(row)
          THEN /\ variants' = variants \cup {row}
               /\ reqs' = [reqs EXCEPT ![r] =
                             IF req.i = Len(req.body.variants)
                             THEN Respond(Wrote(req, TRUE), 201)
                             ELSE [Wrote(req, TRUE) EXCEPT !.i = req.i + 1]]
          ELSE /\ variants' = variants
               /\ reqs' = [reqs EXCEPT ![r] =
                             Respond(req, IF VariantOwned(row) THEN 409 ELSE 500)]
       /\ UNCHANGED <<products, nextProductId, delivered, nEvents>>

\* a variant as the operator sends it
LocalVariant(sku, stock) ==
    [sku |-> sku, price |-> "20", stock |-> stock, title |-> Undef, option1 |-> "Red",
     option2 |-> Undef, option3 |-> Undef, compare_at_price |-> Undef,
     weight |-> UndefNum, weight_unit |-> Undef]

LocalProduct(name, localVariants, syncToShopify) ==
    [name |-> name, description |-> Undef, product_type |-> Undef, vendor |-> Undef,
     variants |-> localVariants, syncToShopify |-> syncToShopify]

CreateProductRequests ==
    {[eid |-> 0, topic |-> "create-product", body |-> body] :
        body \in {LocalProduct("Cap", <<LocalVariant("C-1", 6), LocalVariant("C-2", 3)>>, TRUE),
                  LocalProduct("Belt", <<LocalVariant("B-1", 2)>>, FALSE),
                  LocalProduct("Sock", <<LocalVariant("S-11", 1)>>, TRUE),
                  LocalProduct("Hat", <<>>, TRUE)}}

NextCreate ==
    \/ \E ev \in CreateProductRequests : ReceiveCreateProduct(ev)
    \/ \E r \in Slots : CreateProductCall(r)
    \/ \E r \in Slots : CreateProductInsert(r)
    \/ \E r \in Slots : CreateProductInsertVariant(r)
    \/ \E r \in Slots : QueryFails(r)
    \/ \E r \in Slots : Retire(r)

SpecCreate == InitMerge /\ [][NextCreate]_vars

----------------------------------------------------------------------------
(* Stock events and stock sets that name a variant the store holds without *)
(* an inventory-item id.                                                   *)

\* a product whose only variant comes without inventory_item_id
PendingProduct ==
    [id |-> 109, title |-> "Bag", body_html |-> Undef, product_type |-> Undef,
     vendor |-> Undef, status |-> "active",
     variants |-> <<BareVariant(14, UndefNum, 5)>>]

PendingProductEvents ==
    {[eid |-> 41, topic |-> "products/create", body |-> PendingProduct]}

PendingStockEvents ==
    {[eid |-> 42, topic |-> "orders/create", body |-> [line_items |-> <<LineItem(14, 1)>>]],
     [eid |-> 43, topic |-> "orders/cancelled", body |-> [line_items |-> <<LineItem(14, 1)>>]],
     [eid |-> 44, topic |-> "refunds/create",
      body |-> [refund_line_items |-> <<RefundLine(14, 1)>>]]}

PendingInventoryEvents ==
    {[eid |-> 45, topic |-> "inventory_levels/update",
      body |-> [inventory_item_id |-> NullNum, available |-> 2]]}

\* the new variant gets the local id 3
PendingUpdateStockRequests ==
    {[eid |-> 0, topic |-> "update-stock", body |-> [variantId |-> n, stock |-> q]] :
        n \in {1, 3}, q \in {4, -1}}

NextPending ==
    \/ \E ev \in PendingProductEvents : ReceiveProductsCreate(ev)
    \/ \E ev \in PendingStockEvents : ReceiveStockEvent(ev)
    \/ \E ev \in PendingInventoryEvents : ReceiveInventoryLevel(ev)
    \/ \E ev \in PendingUpdateStockRequests : ReceiveUpdateStock(ev)
    \/ \E r \in Slots : ProductsCreateSelect(r)
    \/ \E r \in Slots : ProductsCreateInsert(r)
    \/ \E r \in Slots : ProductsCreateVariant(r)
    \/ \E r \in Slots : OrdersCreateFind(r)
    \/ \E r \in Slots : OrdersCreateStock(r)
    \/ \E r \in Slots : OrdersCancelledFind(r)
    \/ \E r \in Slots : OrdersCancelledStock(r)
    \/ \E r \in Slots : RefundsCreateFind(r)
    \/ \E r \in Slots : RefundsCreateStock(r)
    \/ \E r \in Slots : InventoryLevelsUpdate(r)
    \/ \E r \in Slots : UpdateStockSelect(r)
    \/ \E r \in Slots : UpdateInventoryCall(r)
    \/ \E r \in Slots : UpdateStockWrite(r)
    \/ \E r \in Slots : Retire(r)

SpecPending == InitMerge /\ [][NextPending]_vars

----------------------------------------------------------------------------
(* Product-create events on their own: a delivery may fail at any query,   *)
(* and the platform delivers the event again.                              *)

NextRedeliver ==
    \/ \E ev \in ProductsCreateEvents : ReceiveProductsCreate(ev)
    \/ \E r \in Slots : ProductsCreateSelect(r)
    \/ \E r \in Slots : ProductsCreateInsert(r)
    \/ \E r \in Slots : ProductsCreateVariant(r)
    \/ \E r \in Slots : QueryFails(r)
    \/ \E r \in Slots : Retire(r)

SpecRedeliver == InitMerge /\ [][NextRedeliver]_vars

----------------------------------------------------------------------------
(* The operator's variant update:                                          *)
(* router.patch('/shopify/:shopifyProductId/variants/:shopifyVariantId').  *)
(* `remote` holds the level the platform has for the variant, which is the *)
(* local stock when the handler reads the variant.                         *)

\* validateVariantData, before the first query
ReceiveUpdateVariant(ev) ==
    IF \/ FalsyText(ev.body.sku)
       \/ ev.body.price \in {UndefNum, NaN} \/ ev.body.price < 0
       \/ ev.body.stock # UndefNum /\ (ev.body.stock = NaN \/ ev.body.stock < 0)
    THEN Receive(ev, "done", 400, 1)
    ELSE Receive(ev, "select", 0, 1)

\* SELECT v.*, p.shopify_product_id FROM product_variants v JOIN products p
\* ... WHERE p.shopify_product_id = $1 AND v.shopify_variant_id = $2; 404
\* without a row; then `if (syncToShopify && stock !== undefined &&
\* variant.shopify_inventory_item_id)`
UpdateVariantSelect(r) ==
    LET req == reqs[r]
        existingVariant ==
            FirstRow({v \in variants :
                        /\ SqlEquals(v.shopify_variant_id, req.body.shopifyVariantId)
                        /\ \E p \in products :
                              /\ p.id = v.product_id
                              /\ SqlEquals(p.shopify_product_id, req.body.shopifyProductId)})
    IN /\ req.pc = "select"
       /\ req.topic = "update-variant"
       /\ reqs' = [reqs EXCEPT ![r] =
                     IF existingVariant.id = 0 THEN Respond(req, 404)
                     ELSE [req EXCEPT
                             !.row = existingVariant,
                             !.remote = <<existingVariant.stock>>,
                             !.pc = IF /\ req.body.syncToShopify
                                       /\ req.body.stock # UndefNum
                                       /\ ~FalsyNum(existingVariant.shopify_inventory_item_id)
                                    THEN "remote" ELSE "write"]]
       /\ StoreUnchanged
       /\ UNCHANGED <<delivered, nEvents>>

\* try { await shopifyService.updateInventory(...) } catch { log }: the
\* platform takes the new level, or the call throws and the handler goes on
UpdateVariantCall(r) ==
    LET req == reqs[r]
    IN /\ req.pc = "remote"
       /\ req.topic = "update-variant"
       /\ \E reply \in Replies :
            LET call == retryWithBackoff(req.call, reply)
                next == [req EXCEPT !.call = call]
            IN reqs' = [reqs EXCEPT ![r] =
                          IF call.outcome = "pending" THEN next
                          ELSE [next EXCEPT !.pc = "write",
                                   !.remote = IF ServiceCallOk(call)
                                              THEN <<parseInt(req.body.stock)>> ELSE @]]
       /\ StoreUnchanged
       /\ UNCHANGED <<delivered, nEvents>>

\* UPDATE product_variants SET price = COALESCE($1, price),
\* stock = COALESCE($2, stock), ... WHERE id = $6 RETURNING *; res.json
UpdateVariantWrite(r) ==
    LET req == reqs[r]
    IN /\ req.pc = "write"
       /\ req.topic = "update-variant"
       /\ variants' = {IF v.id = req.row.id
                       THEN [v EXCEPT !.price = req.body.price,
                                      !.stock = IF SqlNum(req.body.stock) = NullNum
                                                THEN @ ELSE req.body.stock]
                       ELSE v : v \in variants}
       /\ reqs' = [reqs EXCEPT ![r] =
                     Respond(Wrote(req, variants' # variants), 200)]
       /\ UNCHANGED <<products, nextProductId, nextVariantId, delivered, nEvents>>

UpdateVariantRequests ==
    {[eid |-> 0, topic |-> "update-variant",
      body |-> [shopifyProductId |-> 101, shopifyVariantId |-> n, sku |-> "S-11",
                price |-> 20, stock |-> q, syncToShopify |-> sync]] :
        n \in {11, 19}, q \in {4, UndefNum, -1}, sync \in BOOLEAN}

NextVariant ==
    \/ \E ev \in UpdateVariantRequests : ReceiveUpdateVariant(ev)
    \/ \E r \in Slots : UpdateVariantSelect(r)
    \/ \E r \in Slots : UpdateVariantCall(r)
    \/ \E r \in Slots : UpdateVariantWrite(r)
    \/ \E r \in Slots : QueryFails(r)
    \/ \E r \in Slots : Retire(r)

SpecVariant == InitMerge /\ [][NextVariant]_vars

----------------------------------------------------------------------------
(* retryWithBackoff on its own: called with any retries and delay, around  *)
(* an fn that may return or reject in any way at each attempt.             *)

MaxRetries == 3     \* largest `retries` retryWithBackoff is called with

\* what one await fn() may give: a response, an error with a response of
\* some status, an error without a response
FnResults ==
    {[rejected |-> FALSE, status |-> 200],
     [rejected |-> TRUE, status |-> 429],
     [rejected |-> TRUE, status |-> 503],
     [rejected |-> TRUE, status |-> UndefNum]}

RetryCalls ==
    {[eid |-> 0, topic |-> "retryWithBackoff", body |-> [retries |-> n, delay |-> d]] :
        n \in 0..MaxRetries, d \in {DefaultDelay, 250}}

\* retryWithBackoff(fn, retries, delay) is entered
ReceiveRetryCall(ev) ==
    /\ nEvents < MaxEvents
    /\ \E s \in Slots : reqs[s].pc = "idle"
    /\ reqs' = [reqs EXCEPT ![FreeSlot] =
                  [NewRequest(ev, "attempt", 0, 1) EXCEPT
                      !.call = [NoCall EXCEPT !.retries = ev.body.retries,
                                              !.delay = ev.body.delay]]]
    /\ nEvents' = nEvents + 1
    /\ StoreUnchanged
    /\ UNCHANGED delivered

\* try { return await fn() } catch (error) { ... }: one round
RetryAttempt(r) ==
    LET req == reqs[r]
    IN /\ req.pc = "attempt"
       /\ req.topic = "retryWithBackoff"
       /\ \E result \in FnResults :
            LET call == retryWithBackoffRound(req.call, result.status, result)
                next == [req EXCEPT !.call = call]
            IN reqs' = [reqs EXCEPT ![r] =
                          CASE call.outcome = "pending" -> next
                            [] call.outcome = "returned" -> Respond(next, 200)
                            [] OTHER -> Respond(next, 500)]
       /\ StoreUnchanged
       /\ UNCHANGED <<delivered, nEvents>>

NextRetry ==
    \/ \E ev \in RetryCalls : ReceiveRetryCall(ev)
    \/ \E r \in Slots : RetryAttempt(r)
    \/ \E r \in Slots : Retire(r)

SpecRetry == InitMerge /\ [][NextRetry]_vars

----------------------------------------------------------------------------
(* The calls to the platform: an operator's stock set and a pull import of *)
(* one product, with every reply the platform may give and with local      *)
(* queries that may fail.                                                  *)

RemoteCallRequests ==
    {[eid |-> 0, topic |-> "update-stock", body |-> [variantId |-> 1, stock |-> 4]],
     [eid |-> 0, topic |-> "sync-product", body |-> [productId |-> 102]],
     [eid |-> 0, topic |-> "sync-product", body |-> [productId |-> 108]]}

ReceiveRemoteCallRequest(ev) ==
    IF ev.topic = "update-stock" THEN ReceiveUpdateStock(ev) ELSE ReceiveSyncProduct(ev)

NextRemote ==
    \/ \E ev \in RemoteCallRequests : ReceiveRemoteCallRequest(ev)
    \/ \E r \in Slots : UpdateStockSelect(r)
    \/ \E r \in Slots : UpdateInventoryCall(r)
    \/ \E r \in Slots : UpdateStockWrite(r)
    \/ \E r \in Slots : GetProductCall(r, RemoteProducts)
    \/ \E r \in Slots : SyncProductSelect(r)
    \/ \E r \in Slots : SyncProductInsert(r)
    \/ \E r \in Slots : SyncProductUpdate(r)
    \/ \E r \in Slots : SyncProductFindVariant(r)
    \/ \E r \in Slots : SyncProductVariant(r)
    \/ \E r \in Slots : SyncProductInsertVariant(r)
    \/ \E r \in Slots : SyncProductRead(r)
    \/ \E r \in Slots : QueryFails(r)
    \/ \E r \in Slots : Retire(r)

SpecRemote == InitMerge /\ [][NextRemote]_vars

----------------------------------------------------------------------------
(* Properties of the stock ledger *)

\* the stored row with local id `id`, or NoRow
StoredVariant(id) == SelectVariantById(id)

\* C1: in every reachable state every variant's stock quantity is >= 0.
StockNeverNegative == \A v \in variants : v.stock >= 0

\* C2: the resolve-then-stock-apply sequences of the requests in flight are
\* mutually exclusive: while a request holds the variant it resolved and has
\* not yet written its stock, the stored stock is still the one it read, so
\* its write applies its delta to the current stock.
StockReadStaysCurrent ==
    \A r \in Slots :
        reqs[r].pc = "stock" /\ StoredVariant(reqs[r].row.id).id # 0
            => StoredVariant(reqs[r].row.id).stock = reqs[r].row.stock

\* a step of request r
StepOf(r) == reqs[r].pc \notin {"idle", "done"} /\ reqs'[r] # reqs[r]

\* C3: a push event delivered again (same event id and payload) leaves the
\* stock and the fields of every product and variant as the earlier
\* delivery left them: no step of a redelivery changes a row.
RedeliveryChangesNothing ==
    [][\A r \in Slots :
          StepOf(r) /\ reqs[r].dup => products' = products /\ variants' = variants]_vars

\* C4: an inventory-level-update event delivered a second time changes no
\* variant's stock: the stock changed once, at the first delivery.
RedeliveredInventoryLevelChangesNothing ==
    [][\A r \in Slots :
          StepOf(r) /\ reqs[r].topic = "inventory_levels/update" /\ reqs[r].dup
              => \A v \in variants : \E w \in variants' : w.id = v.id /\ w.stock = v.stock]_vars

\* C7: an orders/create line item of quantity k on a known variant whose
\* stock the handler found to be s leaves the stock at max(0, s - k), which
\* is never negative, and the event is never rejected.
OrderLineItemFloorsAtZero ==
    [][\A r \in Slots :
          /\ reqs[r].pc \notin {"idle", "done"} /\ reqs[r].topic = "orders/create"
                => reqs'[r].status \in {0, 200}
          /\ reqs[r].pc = "stock" /\ reqs[r].topic = "orders/create" /\ reqs'[r] # reqs[r]
                => \A w \in variants' : w.id = reqs[r].row.id
                      => /\ w.stock = Max(0, reqs[r].row.stock
                                               - reqs[r].body.line_items[reqs[r].i].quantity)
                         /\ w.stock >= 0]_vars

\* an order line item asking for more than the stock has been applied: the
\* stock is 0 and the handler has moved on to the next line item
OrderLineItemFloored ==
    \E r \in Slots :
        /\ reqs[r].pc = "find" /\ reqs[r].topic = "orders/create" /\ reqs[r].i = 2
        /\ reqs[r].wrote
        /\ reqs[r].body.line_items[1].quantity > reqs[r].row.stock
        /\ StoredVariant(reqs[r].row.id).stock = 0

\* the variant of line item i of the order of request req is not in the store
UnknownItem(req, i) == findVariantByShopifyId(req.body.line_items[i].variant_id) = NoRow

\* C16: in an order-create event with a line item of a known variant and one
\* of a variant the store does not hold, the known one is deducted (10 - 3 =
\* 7), the unknown one changes no row and raises no error, and the event is
\* answered with success.
UnknownLineItemIsSkipped ==
    [][\A r \in Slots :
          StepOf(r) /\ reqs[r].topic = "orders/create" =>
             /\ reqs[r].pc = "find" /\ UnknownItem(reqs[r], reqs[r].i)
                   => /\ products' = products /\ variants' = variants
                      /\ reqs'[r].wrote = reqs[r].wrote
                      /\ reqs'[r].pc \in {"find", "done"}
             /\ reqs[r].pc = "stock"
                /\ reqs[r].row.stock >= reqs[r].body.line_items[reqs[r].i].quantity
                   => \A w \in variants' : w.id = reqs[r].row.id =>
                         w.stock = reqs[r].row.stock
                                     - reqs[r].body.line_items[reqs[r].i].quantity
             /\ reqs'[r].pc = "done" => reqs'[r].status = 200]_vars

\* the order of 3 units of a variant holding 10 and of 1 unit of an unknown
\* variant has been answered: the stock is 7
MixedOrderProcessed ==
    \E r \in Slots :
        /\ reqs[r].pc = "done" /\ reqs[r].topic = "orders/create" /\ reqs[r].status = 200
        /\ Len(reqs[r].body.line_items) = 2 /\ UnknownItem(reqs[r], 2)
        /\ reqs[r].body.line_items[1].quantity = 3
        /\ reqs[r].row.stock = 10
        /\ reqs[r].wrote
        /\ StoredVariant(reqs[r].row.id).stock = 7

\* C17, as claimed: for every prior stock s >= 0 and quantity q >= 1, an
\* order-create event of q units followed by a refund-create event of q
\* units leaves the variant's stock at s.
RefundRestoresPriorStock ==
    \A r, t \in Slots :
        OrderDone(r) /\ RefundDone(t) =>
            StoredVariant(reqs[r].row.id).stock = reqs[r].row.stock

\* C17, amended: the order leaves max(0, s - q) and the refund adds q, so the
\* round trip returns the stock to s exactly when q <= s (10, 7, 10); an
\* order of more than the stock floors it at 0 and the refund leaves q.
RefundRestoresCoveredOrder ==
    \A r, t \in Slots :
        OrderDone(r) /\ RefundDone(t) =>
            LET s == reqs[r].row.stock
                q == reqs[r].body.line_items[1].quantity
                now == StoredVariant(reqs[r].row.id).stock
            IN  /\ now = Max(0, s - q) + q
                /\ q <= s => now = s
                /\ q > s => now = q

\* the order of 3 units of a variant holding 10 and their refund have been
\* answered: the refund found 7 and the stock is 10 again
RoundTripProcessed ==
    \E r, t \in Slots :
        /\ OrderDone(r) /\ RefundDone(t)
        /\ reqs[r].row.stock = 10 /\ reqs[r].body.line_items[1].quantity = 3
        /\ reqs[t].row.stock = 7 /\ reqs[t].wrote
        /\ StoredVariant(reqs[r].row.id).stock = 10

\* the stock left by the event of topic `first` and then the event of topic
\* `second`, both of q units, on a variant holding s
StockAfterPair(first, second, s, q) == NewStock(second, NewStock(first, s, q), q)

\* C38, as claimed: for every prior stock s >= 0, an order-create event of q
\* units and the order-cancelled or refund event of q units leave the same
\* stock whichever is processed first: the stock the second of them writes
\* is the stock the two would leave in the other order.
PairOrderIsImmaterial ==
    [][\A r, t \in Slots :
          /\ StepOf(r)
          /\ reqs[r].pc = "stock"
          /\ reqs[t].pc = "done"
          => StoredVariant(reqs[r].row.id)'.stock =
                StockAfterPair(reqs[r].topic, reqs[t].topic,
                               reqs[t].row.stock, PairQuantity(reqs[r]))]_vars

\* C38, amended: the two orders leave the same stock, s, exactly when
\* q <= s; with q > s the order floors the stock at 0, so order first
\* leaves q and order second leaves s.
PairOrderIsImmaterialWhenCovered ==
    [][\A r, t \in Slots :
          /\ StepOf(r)
          /\ reqs[r].pc = "stock"
          /\ reqs[t].pc = "done"
          => LET s == reqs[t].row.stock
                 q == PairQuantity(reqs[r])
                 now == StoredVariant(reqs[r].row.id)'.stock
                 swapped == StockAfterPair(reqs[r].topic, reqs[t].topic, s, q)
             IN /\ q <= s => now = s /\ now = swapped
                /\ q > s /\ reqs[t].topic = "orders/create" => now = q /\ swapped = s
                /\ q > s /\ reqs[r].topic = "orders/create" => now = s /\ swapped = q]_vars

\* the cancellation of 3 units came first, on a variant holding 10, and the
\* order of the 3 units after it: the order found 13 and the stock is 10
CancelThenOrderProcessed ==
    \E r, t \in Slots :
        /\ OrderDone(r)
        /\ reqs[t].pc = "done" /\ reqs[t].eid = CancelOf(1).eid
        /\ reqs[t].row.stock = 10 /\ PairQuantity(reqs[t]) = 3
        /\ reqs[r].row.stock = 13 /\ reqs[r].wrote
        /\ StoredVariant(reqs[r].row.id).stock = 10

\* the routes that move stock
StockTopics ==
    {"orders/create", "orders/cancelled", "refunds/create", "inventory_levels/update",
     "update-stock"}

\* C24: after every stock mutation that leaves a variant's stock at or below
\* the low-stock threshold, a stock equal to the threshold included, the
\* request that wrote it has raised the low-stock signal for that stock, and
\* the write stays.
LowStockIsSignalled ==
    [][\A r \in Slots :
          StepOf(r) /\ reqs[r].topic \in StockTopics =>
             \A w \in variants' \ variants :
                 w.stock <= LowStockThreshold => w.stock \in reqs'[r].low]_vars

\* C27: a variant whose inventory-item id is NULL never has its stock
\* changed by order-create, order-cancelled, refund-create,
\* inventory-level-update or the operator's update-stock.
PendingVariantKeepsStock ==
    [][\A r \in Slots :
          StepOf(r) /\ reqs[r].topic \in StockTopics =>
             \A v \in variants :
                 v.shopify_inventory_item_id = NullNum
                    => \E w \in variants' : w.id = v.id /\ w.stock = v.stock]_vars

----------------------------------------------------------------------------
(* Properties of the merges *)

MergeTopics == {"products/create", "products/update", "sync-product", "sync-all-products"}

\* C5: a unit of work is applied atomically: a request that has failed (it
\* was answered 500) has left the store as it found it, none of its
\* statements has changed the store.
FailedUnitOfWorkWroteNothing ==
    \A r \in Slots : reqs[r].pc = "done" /\ reqs[r].status = 500 => ~reqs[r].wrote

ProductKept(p, p2, s) ==
    /\ s.body_html = Undef => p2.description = p.description
    /\ s.product_type = Undef => p2.product_type = p.product_type
    /\ s.vendor = Undef => p2.vendor = p.vendor
    /\ s.status = Undef => p2.status = p.status

\* the descriptive fields of a variant that payload variant f omits are in
\* v2 as in v
VariantKept(v, v2, f) ==
    /\ f.sku = Undef => v2.sku = v.sku
    /\ f.title = Undef => v2.title = v.title
    /\ f.option1 = Undef => v2.option1 = v.option1
    /\ f.option2 = Undef => v2.option2 = v.option2
    /\ f.option3 = Undef => v2.option3 = v.option3
    /\ f.compare_at_price = Undef => v2.compare_at_price = v.compare_at_price
    /\ f.weight = UndefNum => v2.weight = v.weight
    /\ f.weight_unit = Undef => v2.weight_unit = v.weight_unit

\* C8: a product-update event or a pull snapshot that omits a descriptive
\* field leaves the stored value of that field, on the product and on the
\* variants it names, as it was.
MergeKeepsOmittedFields ==
    [][\A r \in Slots :
          StepOf(r) /\ reqs[r].topic \in {"products/update"} \cup PullTopics
                    /\ reqs[r].pc \in {"update", "updateVariant"}
              => /\ \A p \in products : \A p2 \in products' :
                      p2.id = p.id /\ p.shopify_product_id = Snapshot(reqs[r]).id
                          => ProductKept(p, p2, Snapshot(reqs[r]))
                 /\ \A v \in variants : \A v2 \in variants' :
                      \A k \in DOMAIN Snapshot(reqs[r]).variants :
                          v2.id = v.id /\ v.shopify_variant_id = Snapshot(reqs[r]).variants[k].id
                              => VariantKept(v, v2, Snapshot(reqs[r]).variants[k])]_vars

\* C9: no step of a product-update event changes the stock of a variant the
\* store already holds.
ProductUpdateKeepsStock ==
    [][\A r \in Slots :
          StepOf(r) /\ reqs[r].topic = "products/update"
              => \A v \in variants : \A w \in variants' : w.id = v.id => w.stock = v.stock]_vars

\* the snapshot of req carries an external variant id that the store holds
\* under another external product
BindsElsewhere(req) ==
    /\ Snapshot(req).id # 0
    /\ \E k \in DOMAIN Snapshot(req).variants : \E v \in variants : \E p \in products :
          /\ v.shopify_variant_id = Snapshot(req).variants[k].id
          /\ p.id = v.product_id
          /\ p.shopify_product_id # Snapshot(req).id

\* C10: a push event or pull import whose snapshot would bind an external
\* variant id, already bound to a local variant, to another local entity
\* fails and leaves the store unchanged: the step that merges such a variant
\* changes no row and ends the request with an error (the bulk import
\* counts the product as failed).
IdentityConflictRejected ==
    [][\A r \in Slots :
          StepOf(r) /\ reqs[r].topic \in MergeTopics
                    /\ reqs[r].pc \in {"updateVariant", "insertVariant"}
                    /\ BindsElsewhere(reqs[r])
              => /\ products' = products /\ variants' = variants
                 /\ \/ reqs'[r].pc = "done" /\ reqs'[r].status # 200
                    \/ reqs'[r].counts.failed > reqs[r].counts.failed]_vars

----------------------------------------------------------------------------
(* Properties of the push routes *)

\* the request of slot r came in on a push route
Pushed(r) == reqs[r].pc # "idle" /\ reqs[r].topic \in PushTopics

\* the signature header is the keyed hash of the exact bytes of the body
\* under the configured secret
Authentic(auth) ==
    auth.secret # Undef /\ auth.hmac = Signature(auth.secret, auth.raw)

\* what the middleware makes of the request
Verdict(auth) == verifyShopifyWebhook(auth.hmac, auth.secret, RawBodyOf(auth.raw))

\* the request was answered without a handler having run
Turned(req, codes) == req.pc = "done" /\ req.status \in codes /\ ~req.wrote

\* C11: on every push route, a request whose signature is missing, malformed
\* or not the keyed hash of its body is answered with an error, no handler
\* step having run for it and none of its statements having changed the store.
UnsignedRequestsRunNoHandler ==
    \A r \in Slots :
        Pushed(r) /\ ~Authentic(reqs[r].auth) => Turned(reqs[r], {401, 500})

\* C12: with the secret configured, the middleware passes a request exactly
\* when its signature header is the base64 HMAC-SHA256 of the exact bytes of
\* its body under that secret, and answers 401 to every other request.
VerifierPassesExactlySignedBodies ==
    \A r \in Slots :
        Pushed(r) /\ reqs[r].auth.secret # Undef =>
            /\ Verdict(reqs[r].auth) = 0 <=> Authentic(reqs[r].auth)
            /\ ~Authentic(reqs[r].auth) => Turned(reqs[r], {401})

\* C13: when the webhook secret is not configured, every push request, with
\* a signature header or without, is answered with a 5xx configuration
\* error and no handler runs for it.
NoSecretAnswersConfigurationError ==
    \A r \in Slots :
        Pushed(r) /\ reqs[r].auth.secret = Undef => Turned(reqs[r], {500})

\* the steps at which a handler awaits a call to the platform
RemoteSteps == {"fetch", "remote"}

\* C14: a request of a push route is never at a step that calls the
\* platform: processing a push event issues no remote call.
PushEventsCallNoRemote ==
    \A r \in Slots : Pushed(r) => reqs[r].pc \notin RemoteSteps

\* a push event has been processed and has changed the store while an
\* operator's stock set is calling the platform
PushProcessedBesideRemoteCall ==
    \E r, t \in Slots :
        /\ Pushed(r) /\ reqs[r].pc = "done" /\ reqs[r].status = 200 /\ reqs[r].wrote
        /\ reqs[t].pc = "remote" /\ reqs[t].topic = "update-stock"

\* the rows of the product with external id spid, and of its variants
ProductsOf(spid) == {p \in products : p.shopify_product_id = spid}
VariantsOf(p) == {v \in variants : v.product_id = p.id}

\* the store holds the snapshot: one product under its id, with the
\* snapshot's status or "active", and one variant per snapshot variant,
\* bound to its product, its variant id and its inventory item id
HoldsSnapshot(snap) ==
    /\ Cardinality(ProductsOf(snap.id)) = 1
    /\ \A p \in ProductsOf(snap.id) :
          /\ p.status = IF snap.status = Undef THEN "active" ELSE snap.status
          /\ Cardinality(VariantsOf(p)) = Len(snap.variants)
          /\ \A k \in DOMAIN snap.variants :
                Cardinality({v \in VariantsOf(p) :
                    /\ v.shopify_variant_id = snap.variants[k].id
                    /\ v.shopify_inventory_item_id = snap.variants[k].inventory_item_id}) = 1

\* C15: a product-create event for a product without a local record, once
\* processed, has created exactly one product and one variant per snapshot
\* variant, bound to the external product, variant and inventory item ids,
\* the product's status being "active" when the snapshot has none.
ProductCreateBindsSnapshot ==
    [][\A r \in Slots :
          /\ StepOf(r)
          /\ reqs[r].topic = "products/create"
          /\ reqs'[r].pc = "done" /\ reqs'[r].status = 200 /\ reqs'[r].wrote
          => HoldsSnapshot(reqs[r].body)']_vars

\* the product-create event of the status-less product has been processed
StatuslessProductCreated ==
    \E r \in Slots :
        /\ Pushed(r) /\ reqs[r].topic = "products/create"
        /\ reqs[r].pc = "done" /\ reqs[r].status = 200 /\ reqs[r].wrote
        /\ reqs[r].body.status = Undef
        /\ \E p \in ProductsOf(reqs[r].body.id) :
              p.status = "active" /\ Cardinality(VariantsOf(p)) = 2

----------------------------------------------------------------------------
(* Properties of the bulk import *)

\* the request of slot r is a bulk import that has been answered
BulkDone(r) == reqs[r].pc = "done" /\ reqs[r].topic = "sync-all-products"

\* a variant of the product carries a price that is not a number
Malformed(product) ==
    \E k \in DOMAIN product.variants : parseFloat(product.variants[k].price) = NaN

\* C18: a bulk import of N products exactly one of which has malformed
\* variant data (a price that does not parse) commits the others and reports
\* the malformed one as failed: the summary counts N - 1 succeeded (created
\* or updated) and 1 failed.
BulkSummaryCountsMalformedProduct ==
    \A r \in Slots :
        /\ BulkDone(r) /\ reqs[r].status = 200
        /\ Cardinality({k \in DOMAIN reqs[r].fetched : Malformed(reqs[r].fetched[k])}) = 1
        => /\ reqs[r].counts.failed = 1
           /\ reqs[r].counts.created + reqs[r].counts.updated = Len(reqs[r].fetched) - 1
           /\ \A k \in DOMAIN reqs[r].fetched :
                 ~Malformed(reqs[r].fetched[k]) => ProductsOf(reqs[r].fetched[k].id) # {}

\* C19: in a bulk import an error on one product never ends the batch and
\* is never raised to the caller: the step that fails adds one to the count
\* of failures and the import goes on with the next product of the page,
\* answering 200 when it has gone through all of them.
BulkImportGoesOnAfterError ==
    [][\A r \in Slots :
          StepOf(r) /\ reqs[r].topic = "sync-all-products" /\ reqs[r].pc # "fetch" =>
             /\ reqs'[r].status \in {0, 200}
             /\ \/ reqs'[r].counts.failed = reqs[r].counts.failed
                \/ /\ reqs'[r].counts.failed = reqs[r].counts.failed + 1
                   /\ reqs'[r].j = reqs[r].j + 1
                   /\ reqs[r].j < Len(reqs[r].fetched)
                         => /\ reqs'[r].pc = "select"
                            /\ reqs'[r].product = reqs[r].fetched[reqs[r].j + 1]
             /\ reqs'[r].pc = "done" => reqs'[r].j = Len(reqs[r].fetched) + 1]_vars

\* the first product of the page has failed before anything was written for
\* it, and the import has gone on to write the second
SecondProductImportedAfterFailure ==
    \E r \in Slots :
        /\ reqs[r].pc = "findVariant" /\ reqs[r].topic = "sync-all-products"
        /\ reqs[r].j = 2
        /\ reqs[r].counts.failed = 1
        /\ reqs[r].counts.created + reqs[r].counts.updated = 1
        /\ reqs[r].wrote
        /\ ProductsOf(reqs[r].fetched[2].id) # {}

\* C20: a bulk import that has been answered has imported every product of
\* the platform's catalogue, whatever its size, also beyond 250 products.
BulkImportCoversCatalogue ==
    \A r \in Slots :
        BulkDone(r) /\ reqs[r].status = 200 /\ reqs[r].counts.failed = 0 =>
            \A k \in DOMAIN reqs[r].remote : ProductsOf(reqs[r].remote[k].id) # {}

----------------------------------------------------------------------------
(* Properties of the product events *)

\* C21: a product-update event for a product without a local record creates
\* the product and, for each snapshot variant it does not find, the variant
\* under it; a product-delete event for a product without a local record
\* changes no row and is answered 200.
UnknownProductUpdateCreatesDeleteSkips ==
    [][\A r \in Slots :
          StepOf(r) =>
             /\ reqs[r].topic = "products/update" /\ ProductsOf(reqs[r].body.id) = {} =>
                   /\ reqs[r].pc = "select" => reqs'[r].pc = "insert"
                   /\ reqs[r].pc = "insert" =>
                         /\ reqs'[r].pc # "done"
                         /\ \E p \in products' \ products :
                               /\ p.shopify_product_id = reqs[r].body.id
                               /\ reqs'[r].dbProductId = p.id
             /\ reqs[r].topic = "products/update" /\ reqs[r].pc = "insertVariant"
                /\ reqs'[r].status \in {0, 200} =>
                   \E v \in variants' \ variants :
                       /\ v.shopify_variant_id = reqs[r].body.variants[reqs[r].i].id
                       /\ v.product_id = reqs[r].dbProductId
             /\ reqs[r].topic = "products/delete" /\ ProductsOf(reqs[r].body.id) = {} =>
                   /\ products' = products /\ variants' = variants
                   /\ reqs'[r].pc = "done" /\ reqs'[r].status = 200]_vars

\* a product-update event has created its product and the variant of its
\* snapshot, and a product-delete event for a product the store did not
\* hold has been answered 200 without a change
UnknownProductUpdatedAndDeleted ==
    \E r, t \in Slots :
        /\ reqs[r].pc = "done" /\ reqs[r].topic = "products/update" /\ reqs[r].status = 200
        /\ \E p \in ProductsOf(reqs[r].body.id) :
              /\ p.id = reqs[r].dbProductId /\ p.id >= 2
              /\ \E v \in VariantsOf(p) :
                    v.shopify_variant_id = reqs[r].body.variants[1].id /\ v.id >= 3
        /\ reqs[t].pc = "done" /\ reqs[t].topic = "products/delete" /\ reqs[t].status = 200
        /\ ~reqs[t].wrote

ExistingProductCreateIsSkipped ==
    [][\A r \in Slots :
          /\ StepOf(r)
          /\ reqs[r].topic = "products/create"
          /\ reqs[r].pc = "select"
          /\ \E p \in products : p.shopify_product_id = reqs[r].body.id
          => /\ products' = products
             /\ variants' = variants
             /\ reqs'[r].pc = "done"
             /\ reqs'[r].status = 200
             /\ ~reqs'[r].wrote]_vars

\* a product-create event has been answered 200 without a write, its
\* product being in the store
ExistingProductCreateAnswered ==
    \E r \in Slots :
        /\ reqs[r].pc = "done"
        /\ reqs[r].topic = "products/create"
        /\ reqs[r].status = 200
        /\ ~reqs[r].wrote
        /\ \E p \in products : p.shopify_product_id = reqs[r].body.id

\* C36: when the processing of a product-create event failed after the
\* Product row was inserted and before all its Variants were, a redelivery
\* of the event leaves the Product with every Variant of the snapshot: once
\* a redelivery is acknowledged, the Product holds them all.
RedeliveryCompletesProduct ==
    \A r \in Slots :
        /\ reqs[r].pc = "done"
        /\ reqs[r].topic = "products/create"
        /\ reqs[r].dup
        /\ reqs[r].status = 200
        => \E p \in products :
              /\ p.shopify_product_id = reqs[r].body.id
              /\ \A k \in DOMAIN reqs[r].body.variants :
                    \E v \in variants :
                       /\ v.product_id = p.id
                       /\ v.shopify_variant_id = reqs[r].body.variants[k].id

----------------------------------------------------------------------------
(* Properties of the pull import *)

\* C26: a pull import of a remote product whose SKU is the SKU of a local
\* record bound to another external product id is an identity conflict: no
\* step of the import changes that record, and the import does not answer
\* with success.
SkuTwinIsRefused ==
    [][\A r \in Slots :
          /\ StepOf(r)
          /\ reqs[r].topic = "v1/sync-product"
          /\ reqs[r].pc # "fetch"
          => \A p \in products :
                /\ p.sku = reqs[r].product.sku
                /\ p.shopify_product_id # reqs[r].product.shopify_product_id
                => p \in products' /\ reqs'[r].status # 200]_vars

\* C29: a locally initiated product create that succeeds on the platform
\* inserts the local Product and Variants with the external product id,
\* variant ids and inventory-item ids the platform minted, all non-null.
LocalCreateBindsMintedIds ==
    \A r \in Slots :
        /\ reqs[r].pc = "done"
        /\ reqs[r].topic = "create-product"
        /\ reqs[r].status = 201
        /\ reqs[r].call.outcome = "returned"
        => \E p \in products :
              /\ p.id = reqs[r].dbProductId
              /\ p.shopify_product_id = reqs[r].product.id
              /\ \A k \in DOMAIN reqs[r].product.variants :
                    \E v \in variants :
                       /\ v.product_id = p.id
                       /\ v.shopify_variant_id = reqs[r].product.variants[k].id
                       /\ v.shopify_inventory_item_id =
                             reqs[r].product.variants[k].inventory_item_id

\* C37: an operator's delete of a product sent without the syncToShopify
\* parameter, which defaults to true, calls the platform's delete before it
\* deletes the local Product: when it has answered, the call has been made.
DefaultDeleteCallsPlatform ==
    \A r \in Slots :
        /\ reqs[r].pc = "done"
        /\ reqs[r].topic = "delete-product"
        /\ reqs[r].status = 200
        /\ reqs[r].body.syncToShopify = Undef
        => reqs[r].call.attempts > 0

\* C35: a local product create that fails while inserting one of its
\* variants (a duplicate SKU is answered 409) leaves no Product row and no
\* Variant row written by that request.
FailedCreateLeavesNoRows ==
    \A r \in Slots :
        /\ reqs[r].pc = "done"
        /\ reqs[r].topic = "create-product"
        /\ reqs[r].status \in {409, 500}
        /\ reqs[r].dbProductId # 0
        => /\ \A p \in products : p.id # reqs[r].dbProductId
           /\ \A v \in variants : v.product_id # reqs[r].dbProductId

\* the snapshots that carry the variants of `product` in another order
Reordered(product) ==
    {[product EXCEPT !.variants = [k \in DOMAIN product.variants |-> product.variants[f[k]]]] :
        f \in Permutations(DOMAIN product.variants)}

\* C28: a merged snapshot's variants are matched by external variant id and
\* never by list position: the row a pull import writes is the row it would
\* write for the same snapshot with its variants in any other order.
MergeIgnoresVariantOrder ==
    [][\A r \in Slots :
          /\ StepOf(r)
          /\ reqs[r].topic = "v1/sync-product"
          /\ reqs[r].pc \in {"update", "insert"}
          /\ products' # products
          => \A snapshot \in Reordered(reqs[r].remote[1]) :
                \E p \in products' :
                   /\ p.shopify_product_id = snapshot.id
                   /\ p = SingleTableRow(p.id, syncProductFromShopifyV1(snapshot))]_vars

----------------------------------------------------------------------------
(* Properties of the calls to the platform *)

\* base * 2^n
Doubled(base, n) == base * 2^n

\* C32: retryWithBackoff calls fn at most retries + 1 times, waits delay,
\* 2 * delay, 4 * delay, ... between consecutive attempts, goes round again
\* only after a rejection with status 429 while retries remain, and throws
\* any other rejection at once.
RetryIsBoundedAndDoubles ==
    \A r \in Slots :
        reqs[r].pc # "idle" /\ reqs[r].topic = "retryWithBackoff" =>
            LET call == reqs[r].call
                retries == reqs[r].body.retries
                delay == reqs[r].body.delay
            IN /\ call.attempts <= retries + 1
               /\ Len(call.waited) = retries - call.retries
               /\ \A i \in 1..Len(call.waited) : call.waited[i] = Doubled(delay, i - 1)
               /\ call.outcome = "pending" =>
                     /\ call.attempts = Len(call.waited)
                     /\ call.attempts > 0 => call.rejected /\ call.reply = 429
               /\ call.outcome # "pending" => call.attempts = Len(call.waited) + 1
               /\ call.outcome = "thrown" =>
                     call.rejected /\ (call.reply # 429 \/ call.retries = 0)
               /\ call.outcome = "returned" => ~call.rejected

\* with the defaults: four attempts, waits of 1000, 2000 and 4000 ms, and
\* the fourth rate-limit error thrown
RetriesExhausted ==
    \E r \in Slots :
        /\ reqs[r].pc = "done"
        /\ reqs[r].topic = "retryWithBackoff"
        /\ reqs[r].call.attempts = 4
        /\ reqs[r].call.waited = <<1000, 2000, 4000>>
        /\ reqs[r].call.outcome = "thrown"
        /\ reqs[r].call.reply = 429

\* C33: the operator's stock set writes the local stock only after the
\* platform has accepted the set: a request that failed its validation, found
\* no variant or a variant without inventory-item id, or whose call to the
\* platform failed, has changed no stock and is answered with a failure.
LocalStockWrittenAfterRemote ==
    [][\A r \in Slots :
          StepOf(r) /\ reqs[r].topic = "update-stock" =>
             /\ variants' # variants => ServiceCallOk(reqs[r].call)
             /\ reqs'[r].pc = "done" /\ ~ServiceCallOk(reqs'[r].call) =>
                   /\ reqs'[r].status \in {400, 404, 500}
                   /\ ~reqs'[r].wrote
                   /\ variants' = variants]_vars

\* a stock set has been answered 500 after the platform refused it
RefusedStockSetAnswered ==
    \E r \in Slots :
        /\ reqs[r].pc = "done"
        /\ reqs[r].topic = "update-stock"
        /\ reqs[r].call.attempts > 0
        /\ ~ServiceCallOk(reqs[r].call)
        /\ reqs[r].status = 500
        /\ \E v \in variants : v.id = reqs[r].body.variantId /\ v.stock # reqs[r].body.stock

\* C34: whenever an operator's variant update with syncToShopify and a stock
\* value, on a variant that has an inventory-item id, is answered with
\* success, the platform's level for the variant is the new local stock.
SuccessfulVariantUpdateIsMirrored ==
    \A r \in Slots :
        /\ reqs[r].pc = "done"
        /\ reqs[r].topic = "update-variant"
        /\ reqs[r].status = 200
        /\ reqs[r].body.syncToShopify
        /\ reqs[r].body.stock # UndefNum
        /\ reqs[r].row.shopify_inventory_item_id # NullNum
        => reqs[r].remote = <<reqs[r].body.stock>>

\* C31: a pull import of one product that the platform does not hold (its
\* answer is 404) is answered with 404 and has written nothing.
MissingRemoteProductAnswersNotFound ==
    \A r \in Slots :
        /\ reqs[r].pc = "done"
        /\ reqs[r].topic = "sync-product"
        /\ reqs[r].call.reply = 404
        => reqs[r].status = 404 /\ ~reqs[r].wrote


\* the request of slot r has been answered with a failure after a call to
\* the platform whose last reply was one of `replies`
FailedOn(r, replies) ==
    /\ reqs[r].pc = "done" /\ reqs[r].status = 500
    /\ reqs[r].call.attempts > 0 /\ reqs[r].call.reply \in replies

\* C22: a call under retryWithBackoff that is answered 429 is tried again,
\* after a backoff, before the operation is reported as failed.
RateLimitedCallIsRetried ==
    \A r \in Slots : FailedOn(r, {429}) => reqs[r].call.attempts > 1

\* C23: a call that fails as transiently unavailable (a 5xx response, no
\* response or a timeout) is tried again, after a backoff, before the
\* operation is reported as failed, whereas a request whose call to the
\* platform succeeded and whose local query failed has made that one call.
UnavailableCallIsRetried ==
    \A r \in Slots :
        /\ FailedOn(r, {500, 503, NoReply}) => reqs[r].call.attempts > 1
        /\ FailedOn(r, {200}) => reqs[r].call.attempts = 1

====
